---- MODULE Spec2Model ----
(***************************************************************************)
(* Model of the charlieplexed 6-digit display driver                       *)
(* (include/CharlieplexDisplay.h): the display buffer and its formatters,  *)
(* the scan/refresh engine and the 9 GPIO lines it drives.                 *)
(*                                                                         *)
(* A GPIO line is modelled by its direction (pinMode) and its output       *)
(* latch (digitalWrite): a line in OUTPUT direction drives the level held  *)
(* in its latch, a line in INPUT direction is high-impedance.  pinMode     *)
(* does not touch the latch, digitalWrite does not touch the direction.    *)
(*                                                                         *)
(* Float arguments are fixed-point: voltages and currents are integers in  *)
(* hundredths (centivolts, centiamps).  (int)(x * 10.0 + 0.5) truncates    *)
(* toward zero, as the C++ conversion does.                                *)
(*                                                                         *)
(* Spec      the scan engine, one pin operation per step, the content      *)
(*           written by one setDigit call whose arguments Init draws       *)
(* SpecVolt  setVoltage applied to every voltage of a bounded range        *)
(* SpecFlash setCurrent called again and again while the clock advances    *)
(* SpecCur   setCurrent applied to every current of a bounded range        *)
(* SpecTest  the scan engine with the test patterns started and stopped    *)
(* SpecAbsent  the scan engine with one table entry marked absent          *)
(* SpecFlashLive  the same under a charging caller and a clock that runs   *)
(*           on for ever (and wraps), with fairness                        *)
(* SpecFrame setVoltage and setCurrent in turn, each followed by scans     *)
(*                                                                         *)
(* The second part models the firmware (src/main.cpp), which multiplexes   *)
(* two 3-digit displays itself, keeps a rolling log and estimates the      *)
(* state of charge.                                                        *)
(*                                                                         *)
(* SpecMux   initDisplay and refreshDisplay, one pin operation per step    *)
(* SpecBuf   updateDisplayBuffers applied to bounded readings, then scans  *)
(* SpecLog   logData and getDataJSON over the rolling buffer               *)
(* SpecSoc   checkBatteryFull called while the clock advances              *)
(* SpecLoop  setup once and loop for ever, with fairness                   *)
(* SpecTimer one elapsed-time test followed through the clock's wrap       *)
(*                                                                         *)
(* The third part models the pin mapper (data/mapper.cpp), the program     *)
(* that was used to find the display's wiring.                             *)
(*                                                                         *)
(* SpecMapper  setup and loop, one statement per step, with the button     *)
(***************************************************************************)
EXTENDS Integers, Naturals, Sequences, FiniteSets, TLC

\* ------------------------------------------------------------------------
\* Bounds of the model
\* ------------------------------------------------------------------------
MaxDigitArg == 7        \* setDigit is tried with digit in 0..MaxDigitArg
MaxValue == 13          \* setDigit is tried with value in 0..MaxValue
MaxCentiVolt == 15100   \* setVoltage is tried up to 151.00 V
MaxNegCentiVolt == 600  \* ... and down to -6.00 V
MaxClock == 2000        \* millis() is advanced up to this value
MaxFlashCurrent == 1    \* setCurrent is tried with -MaxFlashCurrent..MaxFlashCurrent half amps
MaxChargeCurrent == 3   \* a charging caller passes 1..MaxChargeCurrent half amps
MaxCentiAmp == 1250     \* setCurrent is tried from -12.50 A to 12.50 A
AbsentDigit == 2        \* the digit that has an absent segment in SpecAbsent
MaxSymbol == 9          \* the affected digit is scanned with the symbols 0..MaxSymbol
MaxMuxVolt == 2         \* the multiplexed display shows 12.0 V .. 12.0 V + MaxMuxVolt * 0.7 V
MaxMuxAmp == 1          \* ... and currents of -MaxMuxAmp * 10.5 A .. MaxMuxAmp * 10.5 A
MaxTimerSlack == 2      \* a timer is followed for MaxTimerSlack ms from the start of each quarter of the clock's range and past its interval
MaxFrameVolt == 1       \* setVoltage is called with 12.5 V .. 12.5 V + MaxFrameVolt * 1.3 V
MaxFrameAmp == 1        \* setCurrent is called with -3.5 A .. -3.5 A + MaxFrameAmp * 7 A
MaxLoopFine == 3        \* the clock ticks finely for MaxLoopFine ms after setup() in each quarter of its range
MaxLoopCoarse == 250    \* ... and coarsely for another MaxLoopCoarse ms
MaxSocClock == 200000   \* checkBatteryFull is followed for MaxSocClock ms after boot and after a wrap
MaxSocSaves == 2        \* the SOC saves are counted up to MaxSocSaves
MaxLogCalls == 600      \* logData() is called up to MaxLogCalls times: the log wraps twice
MaxSensor == 2          \* the sensor delivers one of the signals 0..MaxSensor
MaxAmpStep == 20020     \* updateDisplayBuffers is tried from -1001 A to 1001 A in steps of 0.05 A

\* ------------------------------------------------------------------------
\* Program constants
\* ------------------------------------------------------------------------
DISPLAY_BRIGHTNESS == 100
INTER_SEGMENT_DELAY == 0
INTER_DIGIT_DELAY == 30
DISCHARGE_PULSE == 0
REVERSE_SCAN == FALSE
FLASH_INTERVAL_MS == 400
SETTLE_US == 15
NUM_DIGITS == 6
NUM_PINS == 9
NUM_PATTERNS == 13
INVALID_PIN == 255
UINT8_MOD == 256
\* unsigned long arithmetic wraps modulo ULONG_MOD.  TLC's integers are 32-bit
\* signed, so the counter is given 30 bits here; it wraps the same way.
ULONG_MOD == 1073741824

\* main.cpp
SEGMENT_PINS == <<23, 19, 18, 5, 17, 16, 4, 2>>
VOLTAGE_DIGIT_PINS == <<15, 13, 12>>
CURRENT_DIGIT_PINS == <<14, 27, 26>>
SEGMENT_DIGITS == <<63, 6, 91, 79, 102, 109, 125, 7, 127, 111>>
SEGMENT_MINUS == 64
SEGMENT_BLANK == 0
SEGMENT_DP_MASK == 128
DISPLAY_UPDATE_INTERVAL == 2
LOG_INTERVAL_MS == 600000
SOC_CALC_INTERVAL_MS == 10000
BUFFER_UPDATE_INTERVAL == 500
SETUP_DELAY_MS == 1000
IS_TEST == TRUE
FULL_VOLTAGE_THRESHOLD == 1380
FULL_CURRENT_THRESHOLD == 100
FULL_DETECTION_TIME == 60000
MAX_DATA_POINTS == 288
SegPins == {SEGMENT_PINS[i] : i \in 1..8}
DigitPins == {VOLTAGE_DIGIT_PINS[i] : i \in 1..3} \cup {CURRENT_DIGIT_PINS[i] : i \in 1..3}
MuxPins == SegPins \cup DigitPins

Digits == 0..(NUM_DIGITS - 1)
Segs == 0..7
Pins == 0..(NUM_PINS - 1)

scanSequence == <<5, 4, 3, 2, 1, 0>>

\* (segment G of the last digit has its pins the other way round)
digitMap_twice ==
  << << <<0,1>>, <<0,2>>, <<0,3>>, <<0,4>>, <<0,5>>, <<0,6>>, <<0,7>>, <<0,8>> >>,
     << <<1,0>>, <<2,0>>, <<3,0>>, <<4,0>>, <<5,0>>, <<6,0>>, <<7,0>>, <<8,0>> >>,
     << <<1,2>>, <<1,3>>, <<1,4>>, <<1,5>>, <<1,6>>, <<1,7>>, <<1,8>>, <<4,5>> >>,
     << <<2,1>>, <<3,1>>, <<4,1>>, <<5,1>>, <<6,1>>, <<7,1>>, <<8,1>>, <<5,4>> >>,
     << <<2,3>>, <<2,4>>, <<2,5>>, <<2,6>>, <<2,7>>, <<2,8>>, <<4,6>>, <<4,7>> >>,
     << <<3,2>>, <<4,2>>, <<5,2>>, <<6,2>>, <<7,2>>, <<8,2>>, <<4,6>>, <<7,4>> >> >>

\* (the last entry names pin 4 twice)
digitMap_samePin ==
  << << <<0,1>>, <<0,2>>, <<0,3>>, <<0,4>>, <<0,5>>, <<0,6>>, <<0,7>>, <<0,8>> >>,
     << <<1,0>>, <<2,0>>, <<3,0>>, <<4,0>>, <<5,0>>, <<6,0>>, <<7,0>>, <<8,0>> >>,
     << <<1,2>>, <<1,3>>, <<1,4>>, <<1,5>>, <<1,6>>, <<1,7>>, <<1,8>>, <<4,5>> >>,
     << <<2,1>>, <<3,1>>, <<4,1>>, <<5,1>>, <<6,1>>, <<7,1>>, <<8,1>>, <<5,4>> >>,
     << <<2,3>>, <<2,4>>, <<2,5>>, <<2,6>>, <<2,7>>, <<2,8>>, <<4,6>>, <<4,7>> >>,
     << <<3,2>>, <<4,2>>, <<5,2>>, <<6,2>>, <<7,2>>, <<8,2>>, <<6,4>>, <<4,4>> >> >>

digitMap ==
  << << <<0,1>>, <<0,2>>, <<0,3>>, <<0,4>>, <<0,5>>, <<0,6>>, <<0,7>>, <<0,8>> >>,
     << <<1,0>>, <<2,0>>, <<3,0>>, <<4,0>>, <<5,0>>, <<6,0>>, <<7,0>>, <<8,0>> >>,
     << <<1,2>>, <<1,3>>, <<1,4>>, <<1,5>>, <<1,6>>, <<1,7>>, <<1,8>>, <<4,5>> >>,
     << <<2,1>>, <<3,1>>, <<4,1>>, <<5,1>>, <<6,1>>, <<7,1>>, <<8,1>>, <<5,4>> >>,
     << <<2,3>>, <<2,4>>, <<2,5>>, <<2,6>>, <<2,7>>, <<2,8>>, <<4,6>>, <<4,7>> >>,
     << <<3,2>>, <<4,2>>, <<5,2>>, <<6,2>>, <<7,2>>, <<8,2>>, <<6,4>>, <<7,4>> >> >>

\* digitPatterns[13], bits DP G F E D C B A
digitPatterns == <<63, 6, 91, 79, 102, 109, 125, 7, 127, 111, 64, 8, 0>>


\* (pattern & (1 << seg)) != 0
Bit(pattern, seg) == ((pattern \div (2 ^ seg)) % 2) = 1

\* The byte read by digitPatterns[value]: a table entry for value < 13; a
\* read past the end of the table yields whatever byte lies there.
PatternReads(value) ==
  IF value < NUM_PATTERNS THEN {digitPatterns[value + 1]} ELSE 0..(UINT8_MOD - 1)

\* C++ integer division and float-to-int conversion truncate toward zero
TruncDiv(a, b) == IF a >= 0 THEN a \div b ELSE -((-a) \div b)

\* now - last on unsigned long
Sub32(a, b) == (a - b + ULONG_MOD) % ULONG_MOD

VARIABLES
  displayBuffer,      \* uint8_t displayBuffer[6]
  decimalPoints,      \* bool decimalPoints[6]
  currentDigit,       \* scan cursor
  testMode, ghostingTestMode, testModeStartTime, testDigitValue, lastTestIndex,
  toggleState,        \* flash toggle
  lastDisplayFlash,   \* static local of setCurrent
  millis,             \* the millisecond clock
  pinDir,             \* per pin: 0 = INPUT, 1 = OUTPUT
  pinOut,             \* per pin: output latch, 0 = LOW, 1 = HIGH
  ops,                \* pin operations of the running call still to execute
  settled,            \* microseconds of delay spent with all pins high-impedance since a pin was last driven
  gap,                \* the value of settled when the pins were last taken out of all-high-impedance
  drives,             \* drive windows observed during the current (last) refresh():
                      \* <<pins driven HIGH, pins driven LOW, microseconds, settle time before>>
  scanLog,            \* <<cursor before, digit serviced>> of the last six refresh() calls
  lastCall,           \* the last public call and its arguments
  flashLog,           \* the last two setCurrent calls: time, argument, flag and toggle left
  voltLog,            \* the argument of the last setVoltage call
  digitArg, valueArg, dpArg,  \* the arguments setDigit is called with
  voltageArg,         \* the argument setVoltage is called with
  currentArg,         \* the argument setCurrent is called with
  spent,              \* microseconds of delay executed by the current (last) refresh()
  absentSegs          \* table entries the build marks absent: <<digit, segment, side>>,
                      \* side "anode", "cathode" or "both" holding the sentinel 255

\* The main program (src/main.cpp), which drives a multiplexed display of its
\* own: six digit-select lines and eight segment lines
VARIABLES
  voltageDigits,      \* uint8_t voltageDigits[3]
  currentDigits,      \* uint8_t currentDigits[3]
  currentDigitIndex,  \* the digit refreshDisplay() services next
  displayVoltage, displayCurrent,
  muxDir,             \* per GPIO of the multiplexed display: 0 = INPUT, 1 = OUTPUT
  muxOut,             \* per GPIO of the multiplexed display: output latch
  mops,               \* pin operations of the running initDisplay()/refreshDisplay()
  muxLog,             \* currentDigitIndex before each of the last six refreshDisplay() calls
  mainCall,           \* the last function of main.cpp called
  mVoltageArg, mCurrentArg,  \* the arguments updateDisplayBuffers is called with
  timer,              \* one elapsed-time test followed on its own: interval, 'last', true elapsed time
  dataLog,            \* DataPoint dataLog[288]: the entries written so far (the others are zero)
  dataIndex, dataCount, bootTime,
  history,            \* every point logData() has logged, in order
  jsonOut,            \* the arrays of the last getDataJSON() result
  sensorArg,          \* which of the sensor signals is being read
  socPercentage, fullDetectionStartTime, batteryWasFull,
  socSaves,           \* how often checkBatteryFull() has reset and saved the SOC
  episode,            \* the running full episode: time since its first call, resets
  lastDisplayUpdate, lastDisplayBufferUpdate, lastSocCalcTime, lastLogTime,
  loopLog             \* the last loop() iteration: its currentTime, the timers it found expired

muxVars == <<voltageDigits, currentDigits, currentDigitIndex, displayVoltage,
             displayCurrent, muxDir, muxOut, mops, muxLog>>
mainArgVars == <<mVoltageArg, mCurrentArg, sensorArg, timer>>
logVars == <<dataLog, dataIndex, dataCount, bootTime, history, jsonOut>>
socVars == <<socPercentage, fullDetectionStartTime, batteryWasFull, socSaves, episode>>
loopVars == <<lastDisplayUpdate, lastDisplayBufferUpdate, lastSocCalcTime, lastLogTime,
              loopLog>>
mainVars == <<muxVars, mainCall, mainArgVars, logVars, socVars, loopVars>>

\* The pin mapper (src/data/mapper.cpp), a program of its own for the same
\* board: it drives the 9 display lines pair by pair and reads a button
VARIABLES
  mapDir,             \* per display line 0..8: 0 = INPUT, 1 = OUTPUT
  mapOut,             \* per display line 0..8: output latch
  button,             \* the level at BUTTON_PIN: 1 = HIGH (released), 0 = LOW (pressed)
  mapPc,              \* "boot", "setup", "idle" (between two loop() calls), "loop"
  pops,               \* statements of the running setup()/loop() body still to execute
  waitPhase,          \* where waitForButtonPress() stands: "press" or "release"
  mapAnode, mapCathode,  \* the loop variables anode and cathode of loop()
  testNumber,         \* static local of loop()
  testLog,            \* the tests announced in the current (last) pass: number, pair
  sawPress, sawRelease,  \* the button was LOW / HIGH again since the last announcement
  leftTest            \* the test last left: its number, whether the button was pressed
                      \* and released while it was on

mapperVars == <<mapDir, mapOut, button, mapPc, pops, waitPhase, mapAnode, mapCathode,
                testNumber, testLog, sawPress, sawRelease, leftTest>>

vars == <<displayBuffer, decimalPoints, currentDigit, testMode, ghostingTestMode,
          testModeStartTime, testDigitValue, lastTestIndex, toggleState,
          lastDisplayFlash, millis, pinDir, pinOut, ops, settled, gap, drives,
          scanLog, lastCall, flashLog, voltLog, digitArg, valueArg, dpArg, voltageArg,
          currentArg, spent, absentSegs, mainVars, mapperVars>>

objVars == <<displayBuffer, decimalPoints, toggleState, lastDisplayFlash>>
testVars == <<testMode, ghostingTestMode, testModeStartTime, testDigitValue, lastTestIndex>>
hwVars == <<pinDir, pinOut, settled, gap, drives, spent>>
\* everything of the charlieplex driver but the clock
driverVars == <<displayBuffer, decimalPoints, currentDigit, testMode, ghostingTestMode,
                testModeStartTime, testDigitValue, lastTestIndex, toggleState,
                lastDisplayFlash, pinDir, pinOut, ops, settled, gap, drives,
                scanLog, lastCall, flashLog, voltLog, digitArg, valueArg, dpArg, voltageArg,
                currentArg, spent, absentSegs>>
argVars == <<digitArg, valueArg, dpArg, voltageArg, currentArg, absentSegs>>

\* digitMap[d][seg][0] and digitMap[d][seg][1].  The table as compiled has no
\* absent entry (absentSegs is empty); a build for a display that lacks a pin
\* pair holds the sentinel in that entry.
Anode(d, seg) ==
  IF \E k \in {"anode", "both"} : <<d, seg, k>> \in absentSegs
    THEN INVALID_PIN ELSE digitMap[d + 1][seg + 1][1]
Cathode(d, seg) ==
  IF \E k \in {"cathode", "both"} : <<d, seg, k>> \in absentSegs
    THEN INVALID_PIN ELSE digitMap[d + 1][seg + 1][2]

\* again: begin() called right after begin()
NoCall == [op |-> "none", digit |-> 0, value |-> 0, dp |-> FALSE, again |-> FALSE]
CallRec(o, d, v, b) ==
  [op |-> o, digit |-> d, value |-> v, dp |-> b,
   again |-> (o = "begin" /\ lastCall.op = "begin")]

\* ------------------------------------------------------------------------
\* The GPIO lines
\* ------------------------------------------------------------------------
Hw == [dir |-> pinDir, out |-> pinOut, settled |-> settled, gap |-> gap,
       drives |-> drives, cur |-> currentDigit, spent |-> spent]

DrivenHigh(h) == {p \in Pins : h.dir[p] = 1 /\ h.out[p] = 1}
DrivenLow(h) == {p \in Pins : h.dir[p] = 1 /\ h.out[p] = 0}
HighZ(h) == {p \in Pins : h.dir[p] = 0}
SettleCap == SETTLE_US + INTER_DIGIT_DELAY

Min(a, b) == IF a < b THEN a ELSE b
Abs(x) == IF x < 0 THEN -x ELSE x

\* pinMode(charliePins[p], m)
pinMode(h, p, m) ==
  [h EXCEPT !.dir = [@ EXCEPT ![p] = m],
            !.settled = IF m = 1 THEN 0 ELSE @,
            !.gap = IF m = 1 /\ HighZ(h) = Pins THEN h.settled ELSE @]

\* digitalWrite(charliePins[p], v)
digitalWrite(h, p, v) == [h EXCEPT !.out = [@ EXCEPT ![p] = v]]

\* delayMicroseconds(us): time passes in the present pin state.  With all
\* pins high-impedance it is settle time; with a pin driven HIGH and a pin
\* driven LOW it is a drive window, which uses up the settle time before it.
delayMicroseconds(h, us) ==
  IF HighZ(h) = Pins
    THEN [h EXCEPT !.settled = Min(@ + us, SettleCap), !.spent = @ + us]
    ELSE IF DrivenHigh(h) # {} /\ DrivenLow(h) # {}
      THEN [h EXCEPT !.drives = Append(@, <<DrivenHigh(h), DrivenLow(h), us, h.gap>>),
                     !.gap = 0, !.spent = @ + us]
      ELSE [h EXCEPT !.spent = @ + us]

\* (a cursor that advances by two)
NextDigit_skip(c) == (c + 2) % NUM_DIGITS

\* currentDigit = (currentDigit + 1) % 6
NextDigit(c) == (c + 1) % NUM_DIGITS

advanceDigit(h) == [h EXCEPT !.cur = NextDigit(@)]

\* One pin operation
Exec(h, op) ==
  CASE op[1] = "mode" -> pinMode(h, op[2], op[3])
    [] op[1] = "write" -> digitalWrite(h, op[2], op[3])
    [] op[1] = "delay" -> delayMicroseconds(h, op[2])
    [] op[1] = "next" -> advanceDigit(h)

\* ------------------------------------------------------------------------
\* The driver's private helpers, as the pin operations they perform
\* ------------------------------------------------------------------------
\* (a loop that starts at pin 1 and never releases pin 0)
setAllPinsHighZ_fromOne == [i \in 1..(NUM_PINS - 1) |-> <<"mode", i, 0>>]

\* (a loop bound of 8: the last pin is never released)
setAllPinsHighZ_eight == [i \in 1..(NUM_PINS - 1) |-> <<"mode", i - 1, 0>>]

setAllPinsHighZ == [i \in 1..NUM_PINS |-> <<"mode", i - 1, 0>>]

dischargeAllPins ==
  IF DISCHARGE_PULSE > 0
    THEN [k \in 1..(2 * NUM_PINS) |->
            IF k % 2 = 1 THEN <<"mode", (k - 1) \div 2, 1>>
                         ELSE <<"write", (k - 2) \div 2, 0>>]
         \o << <<"delay", DISCHARGE_PULSE, 0>> >> \o setAllPinsHighZ
    ELSE <<>>

\* (the sentinel test asks for both pins to be absent)
lightSegment_bothOnly(anode, cathode) ==
  IF anode = INVALID_PIN /\ cathode = INVALID_PIN
    THEN <<>>
    ELSE setAllPinsHighZ
         \o << <<"mode", anode, 1>>, <<"mode", cathode, 1>>,
               <<"write", anode, 1>>, <<"write", cathode, 0>> >>

lightSegment(anode, cathode) ==
  IF anode = INVALID_PIN \/ cathode = INVALID_PIN
    THEN <<>>
    ELSE setAllPinsHighZ
         \o << <<"mode", anode, 1>>, <<"mode", cathode, 1>>,
               <<"write", anode, 1>>, <<"write", cathode, 0>> >>

\* ------------------------------------------------------------------------
\* Content mutators
\* ------------------------------------------------------------------------
Obj == [buf |-> displayBuffer, dp |-> decimalPoints, tog |-> toggleState,
        lastFlash |-> lastDisplayFlash]

\* (no range check: the index wraps around the buffer)
setDigit_wrap(o, digit, value, dp) ==
  [o EXCEPT !.buf = [@ EXCEPT ![digit % NUM_DIGITS] = value],
            !.dp = [@ EXCEPT ![digit % NUM_DIGITS] = dp]]

setDigit(o, digit, value, dp) ==
  IF digit < NUM_DIGITS
    THEN [o EXCEPT !.buf = [@ EXCEPT ![digit] = value],
                   !.dp = [@ EXCEPT ![digit] = dp]]
    ELSE o

\* (the + 0.5 forgotten: truncation instead of rounding)
RoundTenths_trunc(c) == TruncDiv(c * 10, 100)

\* (int)(x * 10.0 + 0.5) for x in hundredths
RoundTenths(c) == TruncDiv(c * 10 + 50, 100)

\* (the upper clamp forgotten)
setVoltage_noClamp(o, voltage) ==
  LET raw == RoundTenths(voltage)
      voltageInt == IF raw < 0 THEN 0 ELSE raw
  IN [o EXCEPT !.buf = [@ EXCEPT ![0] = (voltageInt \div 100) % 10,
                                 ![1] = (voltageInt \div 10) % 10,
                                 ![2] = voltageInt % 10],
               !.dp = [@ EXCEPT ![0] = FALSE, ![1] = TRUE, ![2] = FALSE]]

\* (all six decimal-point flags are rewritten)
setVoltage_allFlags(o, voltage) ==
  LET raw == RoundTenths(voltage)
      hi == IF raw > 999 THEN 999 ELSE raw
      voltageInt == IF hi < 0 THEN 0 ELSE hi
  IN [o EXCEPT !.buf = [@ EXCEPT ![0] = (voltageInt \div 100) % 10,
                                 ![1] = (voltageInt \div 10) % 10,
                                 ![2] = voltageInt % 10],
               !.dp = [i \in Digits |-> i = 1]]

setVoltage(o, voltage) ==
  LET raw == RoundTenths(voltage)
      hi == IF raw > 999 THEN 999 ELSE raw
      voltageInt == IF hi < 0 THEN 0 ELSE hi
  IN [o EXCEPT !.buf = [@ EXCEPT ![0] = (voltageInt \div 100) % 10,
                                 ![1] = (voltageInt \div 10) % 10,
                                 ![2] = voltageInt % 10],
               !.dp = [@ EXCEPT ![0] = FALSE, ![1] = TRUE, ![2] = FALSE]]

\* (zero taken for charging)
Charging_orZero(current) == current >= 0

\* charging = (current > 0)
Charging(current) == current > 0

\* (the interval has to be exceeded)
FlashDue_strict(now, last) == Sub32(now, last) > FLASH_INTERVAL_MS

\* currentTime - lastDisplayFlash >= FLASH_INTERVAL_MS
FlashDue(now, last) == Sub32(now, last) >= FLASH_INTERVAL_MS

\* (the flag flashes whatever the sign of the current)
setCurrent_flashBoth(o, current, now) ==
  LET absCurrent == IF current > 0 THEN current ELSE -current
      due == FlashDue(now, o.lastFlash)
      tog == IF due THEN (IF o.tog = 0 THEN 1 ELSE 0) ELSE o.tog
      raw == RoundTenths(absCurrent)
      currentInt == IF raw > 99 THEN 99 ELSE raw
  IN [buf |-> [o.buf EXCEPT ![3] = (currentInt \div 100) % 10,
                            ![4] = (currentInt \div 10) % 10,
                            ![5] = currentInt % 10],
      dp |-> [o.dp EXCEPT ![4] = (tog # 1), ![3] = FALSE, ![5] = FALSE],
      tog |-> tog,
      lastFlash |-> IF due THEN now ELSE o.lastFlash]

\* (the clamp to 9.9 forgotten)
setCurrent_noClamp(o, current, now) ==
  LET charging == Charging(current)
      absCurrent == IF current > 0 THEN current ELSE -current
      due == FlashDue(now, o.lastFlash)
      tog == IF due THEN (IF o.tog = 0 THEN 1 ELSE 0) ELSE o.tog
      currentInt == RoundTenths(absCurrent)
      dp4 == IF charging THEN (IF tog = 1 THEN FALSE ELSE TRUE) ELSE TRUE
  IN [buf |-> [o.buf EXCEPT ![3] = (currentInt \div 100) % 10,
                            ![4] = (currentInt \div 10) % 10,
                            ![5] = currentInt % 10],
      dp |-> [o.dp EXCEPT ![4] = dp4, ![3] = FALSE, ![5] = FALSE],
      tog |-> tog,
      lastFlash |-> IF due THEN now ELSE o.lastFlash]

setCurrent(o, current, now) ==
  LET charging == Charging(current)
      absCurrent == IF current > 0 THEN current ELSE -current
      due == FlashDue(now, o.lastFlash)
      tog == IF due THEN (IF o.tog = 0 THEN 1 ELSE 0) ELSE o.tog
      raw == RoundTenths(absCurrent)
      currentInt == IF raw > 99 THEN 99 ELSE raw
      dp4 == IF charging THEN (IF tog = 1 THEN FALSE ELSE TRUE) ELSE TRUE
  IN [buf |-> [o.buf EXCEPT ![3] = (currentInt \div 100) % 10,
                            ![4] = (currentInt \div 10) % 10,
                            ![5] = currentInt % 10],
      dp |-> [o.dp EXCEPT ![4] = dp4, ![3] = FALSE, ![5] = FALSE],
      tog |-> tog,
      lastFlash |-> IF due THEN now ELSE o.lastFlash]

\* ------------------------------------------------------------------------
\* Test patterns (run at the head of refresh() in test mode)
\* ------------------------------------------------------------------------
TestDigit(now, start) == (Sub32(now, start) \div 1000) % 10
TestIndex(now, start) == (Sub32(now, start) \div 2000) % 41

updateTestPattern(o, now, start) ==
  [o EXCEPT !.buf = [i \in Digits |-> TestDigit(now, start)],
            !.dp = [i \in Digits |-> TRUE]]

\* setVoltage(12.3); setCurrent(-2.0 + testIndex * 0.1)
updateGhostingTest(o, now, start) ==
  setCurrent(setVoltage(o, 1230), -200 + TestIndex(now, start) * 10, now)

\* ------------------------------------------------------------------------
\* refresh()
\* ------------------------------------------------------------------------
\* the digit serviced at cursor value c
DisplayDigit(c) == IF REVERSE_SCAN THEN 5 - c ELSE c

\* (the decimal point taken from bit 7 of the glyph)
ShouldLight_maskOnly(pattern, dp, seg) == Bit(pattern, seg)

ShouldLight(pattern, dp, seg) == IF seg = 7 THEN dp ELSE Bit(pattern, seg)

\* (the settle delay before the drive left out)
SegmentOps_noSettle(d, seg) ==
  setAllPinsHighZ
  \o lightSegment(Anode(d, seg), Cathode(d, seg))
  \o << <<"delay", DISPLAY_BRIGHTNESS, 0>> >>
  \o setAllPinsHighZ
  \o (IF INTER_SEGMENT_DELAY > 0 THEN << <<"delay", INTER_SEGMENT_DELAY, 0>> >> ELSE <<>>)

SegmentOps(d, seg) ==
  setAllPinsHighZ \o << <<"delay", SETTLE_US, 0>> >>
  \o lightSegment(Anode(d, seg), Cathode(d, seg))
  \o << <<"delay", DISPLAY_BRIGHTNESS, 0>> >>
  \o setAllPinsHighZ
  \o (IF INTER_SEGMENT_DELAY > 0 THEN << <<"delay", INTER_SEGMENT_DELAY, 0>> >> ELSE <<>>)

RECURSIVE SegmentLoop(_, _, _, _)
SegmentLoop(d, pattern, dp, seg) ==
  IF seg >= 8 THEN <<>>
  ELSE (IF ShouldLight(pattern, dp, seg) THEN SegmentOps(d, seg) ELSE <<>>)
       \o SegmentLoop(d, pattern, dp, seg + 1)

\* (a settle delay added to every digit)
refreshOps_settleDigit(d, pattern, dp) ==
  SegmentLoop(d, pattern, dp, 0)
  \o setAllPinsHighZ \o << <<"delay", SETTLE_US, 0>> >>
  \o dischargeAllPins
  \o (IF INTER_DIGIT_DELAY > 0 THEN << <<"delay", INTER_DIGIT_DELAY, 0>> >> ELSE <<>>)
  \o << <<"next", 0, 0>> >>

\* the pin operations of one refresh() call servicing digit d
refreshOps(d, pattern, dp) ==
  SegmentLoop(d, pattern, dp, 0)
  \o setAllPinsHighZ
  \o dischargeAllPins
  \o (IF INTER_DIGIT_DELAY > 0 THEN << <<"delay", INTER_DIGIT_DELAY, 0>> >> ELSE <<>>)
  \o << <<"next", 0, 0>> >>

\* (the test pattern written whatever the mode)
Refreshed_always(o) ==
  IF ghostingTestMode THEN updateGhostingTest(o, millis, testModeStartTime)
                      ELSE updateTestPattern(o, millis, testModeStartTime)

\* the buffer as refresh() leaves it: updated by the test pattern in test mode
Refreshed(o) ==
  IF testMode
    THEN IF ghostingTestMode THEN updateGhostingTest(o, millis, testModeStartTime)
                             ELSE updateTestPattern(o, millis, testModeStartTime)
    ELSE o

PushLog(log, e) ==
  LET l == Append(log, e) IN IF Len(l) > NUM_DIGITS THEN Tail(l) ELSE l

Idle == ops = <<>>

TypeOK ==
  /\ displayBuffer \in [Digits -> 0..(UINT8_MOD - 1)]
  /\ decimalPoints \in [Digits -> BOOLEAN]
  /\ currentDigit \in 0..(UINT8_MOD - 1)
  /\ pinDir \in [Pins -> {0, 1}]
  /\ pinOut \in [Pins -> {0, 1}]
  /\ toggleState \in {0, 1}

\* ------------------------------------------------------------------------
\* State after construction (and power-up of the GPIO block)
\* ------------------------------------------------------------------------
InitObj ==
  /\ displayBuffer = [i \in Digits |-> 0]
  /\ decimalPoints = [i \in Digits |-> FALSE]
  /\ currentDigit = 0
  /\ testMode = FALSE
  /\ ghostingTestMode = FALSE
  /\ testModeStartTime = 0
  /\ testDigitValue = 0
  /\ lastTestIndex = -1
  /\ toggleState = 0
  /\ lastDisplayFlash = 0
  /\ millis = 0
  /\ pinDir = [p \in Pins |-> 0]
  /\ pinOut = [p \in Pins |-> 0]
  /\ ops = <<>>
  /\ settled = 0
  /\ gap = 0
  /\ drives = <<>>
  /\ scanLog = <<>>
  /\ lastCall = NoCall
  /\ flashLog = <<>>
  /\ voltLog = <<>>
  /\ spent = 0

NoTimer == [interval |-> 0, last |-> 0, elapsed |-> 0, back |-> FALSE, tested |-> FALSE,
            due |-> FALSE, truly |-> FALSE, wrapped |-> FALSE, setBack |-> FALSE]
NoJSON == [timestamps |-> <<>>, voltages |-> <<>>, currents |-> <<>>, soc |-> <<>>,
           called |-> FALSE]
NoEpisode == [open |-> FALSE, held |-> 0, resets |-> 0, resetHeld |-> 0]
NoLoop == [at |-> 0, bufferDue |-> FALSE, socExpired |-> FALSE, logExpired |-> FALSE]

numPins == 9

MuxVoltages == {1200 + 70 * k : k \in 0..MaxMuxVolt}
MuxCurrents == {1050 * k : k \in (-MaxMuxAmp)..MaxMuxAmp} \cup {-250}

\* The globals of main.cpp as statically initialised; the GPIOs of the
\* multiplexed display are inputs with cleared latches at power-up
InitMux ==
  /\ voltageDigits = <<0, 0, 0>>
  /\ currentDigits = <<0, 0, 0>>
  /\ currentDigitIndex = 0
  /\ displayVoltage = 0
  /\ displayCurrent = 0
  /\ muxDir = [p \in MuxPins |-> 0]
  /\ muxOut = [p \in MuxPins |-> 0]
  /\ mops = <<>>
  /\ muxLog = <<>>

InitLogVars ==
  /\ dataLog = <<>>
  /\ dataIndex = 0
  /\ dataCount = 0
  /\ bootTime = 0
  /\ history = <<>>
  /\ jsonOut = NoJSON

InitSoc ==
  /\ socPercentage = 10000
  /\ fullDetectionStartTime = 0
  /\ batteryWasFull = FALSE
  /\ socSaves = 0
  /\ episode = NoEpisode

InitLoop ==
  /\ lastDisplayUpdate = 0
  /\ lastDisplayBufferUpdate = 0
  /\ lastSocCalcTime = 0
  /\ lastLogTime = 0
  /\ loopLog = NoLoop

\* mapper.cpp at power-up: the display lines are inputs with cleared latches,
\* the button is released (BUTTON_PIN is pulled up)
InitMapper ==
  /\ mapDir = [i \in 0..(numPins - 1) |-> 0]
  /\ mapOut = [i \in 0..(numPins - 1) |-> 0]
  /\ button = 1
  /\ mapPc = "boot"
  /\ pops = <<>>
  /\ waitPhase = "press"
  /\ mapAnode = 0
  /\ mapCathode = 0
  /\ testNumber = 1
  /\ testLog = <<>>
  /\ sawPress = FALSE
  /\ sawRelease = FALSE
  /\ leftTest = [n |-> 0, button |-> FALSE]

InitStatics ==
  /\ InitMapper
  /\ InitMux
  /\ InitLogVars
  /\ InitSoc
  /\ InitLoop
  /\ mainCall = "none"

InitGlobals ==
  /\ InitStatics
  /\ mVoltageArg = 0
  /\ mCurrentArg = 0
  /\ sensorArg = 0
  /\ timer = NoTimer

\* The charlieplex driver constructed and never called
InitDriverIdle ==
  /\ InitObj
  /\ digitArg = 0 /\ valueArg = 0 /\ dpArg = FALSE
  /\ voltageArg = 0
  /\ currentArg = 0
  /\ absentSegs = {}

\* The caller of Spec writes one digit: its setDigit arguments are drawn here
Init ==
  /\ InitObj
  /\ InitGlobals
  /\ digitArg \in 0..MaxDigitArg
  /\ valueArg \in 0..MaxValue
  /\ dpArg \in BOOLEAN
  /\ voltageArg = 0
  /\ currentArg = 0
  /\ absentSegs = {}

\* ------------------------------------------------------------------------
\* Public calls.  Calls run to completion one after the other (one
\* cooperative loop); the pin operations of a call are executed one per step.
\* ------------------------------------------------------------------------
SetHw(h) ==
  /\ pinDir' = h.dir
  /\ pinOut' = h.out
  /\ settled' = h.settled
  /\ gap' = h.gap
  /\ drives' = h.drives
  /\ spent' = h.spent
  /\ currentDigit' = h.cur

SetObj(o) ==
  /\ displayBuffer' = o.buf
  /\ decimalPoints' = o.dp
  /\ toggleState' = o.tog
  /\ lastDisplayFlash' = o.lastFlash

\* (begin() also rewinds the scan cursor)
Begin_rewind ==
  /\ Idle
  /\ ops' = setAllPinsHighZ
  /\ currentDigit' = 0
  /\ lastCall' = CallRec("begin", 0, 0, FALSE)
  /\ UNCHANGED <<objVars, testVars, millis, hwVars, scanLog, flashLog, voltLog, argVars, mainVars, mapperVars>>

\* begin(): entry
Begin ==
  /\ Idle
  /\ ops' = setAllPinsHighZ
  /\ lastCall' = CallRec("begin", 0, 0, FALSE)
  /\ UNCHANGED <<objVars, testVars, currentDigit, millis, hwVars, scanLog, flashLog, voltLog, argVars, mainVars, mapperVars>>

SetDigit(digit, value, dp) ==
  /\ Idle
  /\ SetObj(setDigit(Obj, digit, value, dp))
  /\ lastCall' = CallRec("setDigit", digit, value, dp)
  /\ UNCHANGED <<currentDigit, testVars, millis, hwVars, ops, scanLog, flashLog, voltLog, argVars, mainVars, mapperVars>>

\* refresh(): entry, up to the glyph lookup
Refresh ==
  /\ Idle
  /\ LET o == Refreshed(Obj)
         d == DisplayDigit(currentDigit)
     IN \E pattern \in PatternReads(o.buf[d]) :
          /\ SetObj(o)
          /\ ops' = refreshOps(d, pattern, o.dp[d])
          /\ scanLog' = PushLog(scanLog, <<currentDigit, d>>)
          /\ lastCall' = CallRec("refresh", d, o.buf[d], o.dp[d])
  /\ drives' = <<>>
  /\ spent' = 0
  /\ testDigitValue' = IF testMode /\ ~ghostingTestMode
                         THEN TestDigit(millis, testModeStartTime) ELSE testDigitValue
  /\ lastTestIndex' = IF testMode /\ ghostingTestMode
                        THEN TestIndex(millis, testModeStartTime) ELSE lastTestIndex
  /\ UNCHANGED <<testMode, ghostingTestMode, testModeStartTime, currentDigit, millis,
                 pinDir, pinOut, settled, gap, flashLog, voltLog, argVars, mainVars, mapperVars>>

\* the next pin operation of the running call
PinStep ==
  /\ ~Idle
  /\ SetHw(Exec(Hw, Head(ops)))
  /\ ops' = Tail(ops)
  /\ UNCHANGED <<objVars, testVars, millis, scanLog, lastCall, flashLog, voltLog, argVars, mainVars, mapperVars>>

SetVoltage(voltage) ==
  /\ Idle
  /\ SetObj(setVoltage(Obj, voltage))
  /\ voltLog' = <<voltage>>
  /\ lastCall' = CallRec("setVoltage", 0, 0, FALSE)
  /\ UNCHANGED <<currentDigit, testVars, millis, hwVars, ops, scanLog, flashLog, argVars, mainVars, mapperVars>>

PushFlash(log, e) ==
  LET l == Append(log, e) IN IF Len(l) > 2 THEN Tail(l) ELSE l

SetCurrent(current) ==
  /\ Idle
  /\ LET o == setCurrent(Obj, current, millis)
     IN /\ SetObj(o)
        /\ flashLog' = PushFlash(flashLog, [at |-> millis, current |-> current,
                                            flag |-> o.dp[4], tog |-> o.tog])
  /\ lastCall' = CallRec("setCurrent", 0, 0, FALSE)
  /\ UNCHANGED <<currentDigit, testVars, millis, hwVars, ops, scanLog, voltLog, argVars, mainVars, mapperVars>>

\* the millisecond clock advances between calls
TickSteps == {FLASH_INTERVAL_MS \div 2, FLASH_INTERVAL_MS - 1, FLASH_INTERVAL_MS}

Tick(dt) ==
  /\ Idle
  /\ millis + dt <= MaxClock
  /\ millis' = (millis + dt) % ULONG_MOD
  /\ UNCHANGED <<objVars, testVars, currentDigit, hwVars, ops, scanLog, lastCall,
                 flashLog, voltLog, argVars, mainVars, mapperVars>>

StartTestPattern ==
  /\ Idle
  /\ testMode' = TRUE
  /\ ghostingTestMode' = FALSE
  /\ testModeStartTime' = millis
  /\ testDigitValue' = 0
  /\ lastCall' = CallRec("startTestPattern", 0, 0, FALSE)
  /\ UNCHANGED <<objVars, lastTestIndex, currentDigit, millis, hwVars, ops, scanLog,
                 flashLog, voltLog, argVars, mainVars, mapperVars>>

StartGhostingTest ==
  /\ Idle
  /\ testMode' = TRUE
  /\ ghostingTestMode' = TRUE
  /\ testModeStartTime' = millis
  /\ lastTestIndex' = -1
  /\ lastCall' = CallRec("startGhostingTest", 0, 0, FALSE)
  /\ UNCHANGED <<objVars, testDigitValue, currentDigit, millis, hwVars, ops, scanLog,
                 flashLog, voltLog, argVars, mainVars, mapperVars>>

StopTestPattern ==
  /\ Idle
  /\ testMode' = FALSE
  /\ ghostingTestMode' = FALSE
  /\ lastCall' = CallRec("stopTestPattern", 0, 0, FALSE)
  /\ UNCHANGED <<objVars, testModeStartTime, testDigitValue, lastTestIndex, currentDigit,
                 millis, hwVars, ops, scanLog, flashLog, voltLog, argVars, mainVars, mapperVars>>

Next ==
  \/ Begin
  \/ SetDigit(digitArg, valueArg, dpArg)
  \/ Refresh
  \/ PinStep

Spec == Init /\ [][Next]_vars

\* The formatter of voltages, applied to every voltage of the bounded range
InitVolt ==
  /\ InitObj
  /\ InitGlobals
  /\ digitArg = 0 /\ valueArg = 0 /\ dpArg = FALSE
  /\ voltageArg \in (-MaxNegCentiVolt)..MaxCentiVolt
  /\ currentArg = 0
  /\ absentSegs = {}

NextVolt == SetVoltage(voltageArg)

SpecVolt == InitVolt /\ [][NextVolt]_vars

\* setVoltage, setCurrent and refresh interleaved, the clock advancing
\* between calls
FrameVoltages == {1250 + 130 * k : k \in 0..MaxFrameVolt}
FrameCurrents == {700 * k - 350 : k \in 0..MaxFrameAmp}

InitFrame ==
  /\ InitObj
  /\ InitGlobals
  /\ digitArg = 0 /\ valueArg = 0 /\ dpArg = FALSE
  /\ voltageArg = 0
  /\ currentArg = 0
  /\ absentSegs = {}

NextFrame ==
  \/ \E v \in FrameVoltages : SetVoltage(v)
  \/ \E c \in FrameCurrents : SetCurrent(c)
  \/ Refresh
  \/ PinStep
  \/ Tick(MaxClock)

SpecFrame == InitFrame /\ [][NextFrame]_vars

\* The formatter of currents, called again and again as the clock advances
FlashCurrents == {50 * k : k \in (-MaxFlashCurrent)..MaxFlashCurrent}

InitFlash ==
  /\ InitObj
  /\ InitGlobals
  /\ digitArg = 0 /\ valueArg = 0 /\ dpArg = FALSE
  /\ voltageArg = 0
  /\ currentArg \in FlashCurrents
  /\ absentSegs = {}

NextFlash ==
  \/ SetCurrent(currentArg)
  \/ \E dt \in TickSteps : Tick(dt)

SpecFlash == InitFlash /\ [][NextFlash]_vars

\* The formatter of currents under a caller that charges for ever.  The clock
\* runs on without bound and wraps as unsigned long does: between two calls
\* it advances by half a flash interval (twice at most in a row) or by a
\* quarter of its range, and the caller calls at least once per wrap period.
ChargeCurrents == {50 * k : k \in 1..MaxChargeCurrent}
LiveEpoch == ULONG_MOD \div 4
LiveTickSteps == {FLASH_INTERVAL_MS \div 2, LiveEpoch}
LastCallAt == IF flashLog = <<>> THEN 0 ELSE flashLog[Len(flashLog)].at

TickLive(dt) ==
  /\ Idle
  /\ dt < LiveEpoch => (millis % LiveEpoch) + dt <= FLASH_INTERVAL_MS
  /\ Sub32(millis, LastCallAt) + dt < ULONG_MOD
  /\ millis' = (millis + dt) % ULONG_MOD
  /\ UNCHANGED <<objVars, testVars, currentDigit, hwVars, ops, scanLog, lastCall,
                 flashLog, voltLog, argVars, mainVars, mapperVars>>

InitFlashLive ==
  /\ InitObj
  /\ InitGlobals
  /\ digitArg = 0 /\ valueArg = 0 /\ dpArg = FALSE
  /\ voltageArg = 0
  /\ currentArg \in ChargeCurrents
  /\ absentSegs = {}

NextFlashLive ==
  \/ SetCurrent(currentArg)
  \/ \E dt \in LiveTickSteps : TickLive(dt)

SpecFlashLive ==
  /\ InitFlashLive
  /\ [][NextFlashLive]_vars
  /\ WF_vars(SetCurrent(currentArg))
  /\ WF_vars(\E dt \in LiveTickSteps : TickLive(dt))

\* The formatter of currents, applied to every current of the bounded range
InitCur ==
  /\ InitObj
  /\ InitGlobals
  /\ digitArg = 0 /\ valueArg = 0 /\ dpArg = FALSE
  /\ voltageArg = 0
  /\ currentArg \in (-MaxCentiAmp)..MaxCentiAmp
  /\ absentSegs = {}

NextCur == SetCurrent(currentArg)

SpecCur == InitCur /\ [][NextCur]_vars

\* The scan engine in and out of the two test modes, the clock advancing by
\* the period of the test pattern between calls
TestTickSteps == {1000}

InitTest ==
  /\ InitObj
  /\ InitGlobals
  /\ digitArg = 0 /\ valueArg = 0 /\ dpArg = FALSE
  /\ voltageArg = 0
  /\ currentArg = 0
  /\ absentSegs = {}

NextTest ==
  \/ StartTestPattern
  \/ StartGhostingTest
  \/ StopTestPattern
  \/ Refresh
  \/ PinStep
  \/ \E dt \in TestTickSteps : Tick(dt)

SpecTest == InitTest /\ [][NextTest]_vars

\* The scan engine of a build whose table marks one segment absent: anode,
\* cathode or both hold the sentinel.  The affected digit is written with
\* one symbol and decimal-point flag drawn here.
AbsentSides == {"anode", "cathode", "both"}

InitAbsent ==
  /\ InitObj
  /\ InitGlobals
  /\ digitArg = AbsentDigit
  /\ valueArg \in 0..MaxSymbol
  /\ dpArg \in BOOLEAN
  /\ voltageArg = 0
  /\ currentArg = 0
  /\ absentSegs \in { {<<digitArg, seg, k>>} : seg \in Segs, k \in AbsentSides }

NextAbsent ==
  \/ SetDigit(digitArg, valueArg, dpArg)
  \/ Refresh
  \/ PinStep

SpecAbsent == InitAbsent /\ [][NextAbsent]_vars

\* ------------------------------------------------------------------------
\* main.cpp: the multiplexed display
\* ------------------------------------------------------------------------
MainIdle == mops = <<>>

\* (int)(x + 0.5) for x in hundredths
RoundUnits(c) == TruncDiv(c + 50, 100)

\* current >= -9.9 && current <= 9.9
ShowDP(current) == current >= -990 /\ current <= 990

formatVoltage(voltage) ==
  LET raw == RoundTenths(voltage)
      hi == IF raw > 999 THEN 999 ELSE raw
      voltageInt == IF hi < 0 THEN 0 ELSE hi
  IN <<(voltageInt \div 100) % 10, (voltageInt \div 10) % 10, voltageInt % 10>>

formatCurrent(current) ==
  LET negative == current < 0
      absCurrent == IF current > 0 THEN current ELSE -current
  IN IF ShowDP(current)
       THEN LET raw == RoundTenths(absCurrent)
                currentInt == IF raw > 99 THEN 99 ELSE raw
            IN <<IF negative THEN 10 ELSE (currentInt \div 100) % 10,
                 (currentInt \div 10) % 10, currentInt % 10>>
       ELSE LET raw == RoundUnits(absCurrent)
                currentInt == IF raw > 999 THEN 999 ELSE raw
            IN IF negative
                 THEN <<10, (currentInt \div 10) % 10, currentInt % 10>>
                 ELSE <<(currentInt \div 100) % 10, (currentInt \div 10) % 10,
                        currentInt % 10>>

UpdateDisplayBuffers(voltage, current) ==
  /\ MainIdle
  /\ mainCall # "none"
  /\ displayVoltage' = voltage
  /\ displayCurrent' = current
  /\ voltageDigits' = formatVoltage(voltage)
  /\ currentDigits' = formatCurrent(current)
  /\ mainCall' = "updateDisplayBuffers"
  /\ UNCHANGED <<currentDigitIndex, muxDir, muxOut, mops, muxLog, mainArgVars, logVars, socVars, loopVars,
                 millis, driverVars, mapperVars>>

\* initDisplay(): the pin operations
initDisplayOps ==
  [k \in 1..16 |-> IF k % 2 = 1 THEN <<"mode", SEGMENT_PINS[(k + 1) \div 2], 1>>
                                ELSE <<"write", SEGMENT_PINS[k \div 2], 1>>]
  \o [k \in 1..12 |->
        LET i == ((k - 1) \div 4) + 1
        IN CASE k % 4 = 1 -> <<"mode", VOLTAGE_DIGIT_PINS[i], 1>>
             [] k % 4 = 2 -> <<"write", VOLTAGE_DIGIT_PINS[i], 0>>
             [] k % 4 = 3 -> <<"mode", CURRENT_DIGIT_PINS[i], 1>>
             [] k % 4 = 0 -> <<"write", CURRENT_DIGIT_PINS[i], 0>>]

\* the digit-select pin of display digit idx
DigitPin(idx) ==
  IF idx < 3 THEN VOLTAGE_DIGIT_PINS[(idx % 3) + 1] ELSE CURRENT_DIGIT_PINS[(idx % 3) + 1]

\* the segment byte refreshDisplay() puts out for display digit idx
SegmentsOf(idx, vd, cd, dispCurrent) ==
  LET isVoltage == idx < 3
      localDigitIndex == idx % 3
      digitValue == IF isVoltage THEN vd[localDigitIndex + 1] ELSE cd[localDigitIndex + 1]
      showDP == IF isVoltage THEN localDigitIndex = 1
                             ELSE ShowDP(dispCurrent) /\ localDigitIndex = 1
      segments == IF digitValue = 10 THEN SEGMENT_MINUS
                  ELSE IF digitValue < 10 THEN SEGMENT_DIGITS[digitValue + 1]
                  ELSE SEGMENT_BLANK
  IN IF showDP /\ ~Bit(segments, 7) THEN segments + SEGMENT_DP_MASK ELSE segments

\* (the digits are switched off after the segments are written)
refreshDisplayOps_lateOff(idx, vd, cd, dispCurrent) ==
  [i \in 1..8 |-> <<"write", SEGMENT_PINS[i],
                    IF Bit(SegmentsOf(idx, vd, cd, dispCurrent), i - 1) THEN 0 ELSE 1>>]
  \o [k \in 1..6 |-> IF k % 2 = 1 THEN <<"write", VOLTAGE_DIGIT_PINS[(k + 1) \div 2], 0>>
                                   ELSE <<"write", CURRENT_DIGIT_PINS[k \div 2], 0>>]
  \o << <<"write", DigitPin(idx), 1>>, <<"next", 0, 0>> >>

\* refreshDisplay(): the pin operations
refreshDisplayOps(idx, vd, cd, dispCurrent) ==
  [k \in 1..6 |-> IF k % 2 = 1 THEN <<"write", VOLTAGE_DIGIT_PINS[(k + 1) \div 2], 0>>
                               ELSE <<"write", CURRENT_DIGIT_PINS[k \div 2], 0>>]
  \o [i \in 1..8 |-> <<"write", SEGMENT_PINS[i],
                       IF Bit(SegmentsOf(idx, vd, cd, dispCurrent), i - 1) THEN 0 ELSE 1>>]
  \o << <<"write", DigitPin(idx), 1>>, <<"next", 0, 0>> >>

Mux == [dir |-> muxDir, out |-> muxOut, idx |-> currentDigitIndex]

MuxExec(m, op) ==
  CASE op[1] = "mode" -> [m EXCEPT !.dir = [@ EXCEPT ![op[2]] = op[3]]]
    [] op[1] = "write" -> [m EXCEPT !.out = [@ EXCEPT ![op[2]] = op[3]]]
    [] op[1] = "next" -> [m EXCEPT !.idx = (@ + 1) % 6]

SetMux(m) ==
  /\ muxDir' = m.dir
  /\ muxOut' = m.out
  /\ currentDigitIndex' = m.idx

\* initDisplay(): entry; called once, by setup()
InitDisplay ==
  /\ MainIdle
  /\ mainCall = "none"
  /\ mops' = initDisplayOps
  /\ mainCall' = "initDisplay"
  /\ UNCHANGED <<voltageDigits, currentDigits, currentDigitIndex, displayVoltage,
                 displayCurrent, muxDir, muxOut, muxLog, mainArgVars, logVars, socVars, loopVars,
                 millis, driverVars, mapperVars>>

\* refreshDisplay(): entry
RefreshDisplay ==
  /\ MainIdle
  /\ mainCall # "none"
  /\ mops' = refreshDisplayOps(currentDigitIndex, voltageDigits, currentDigits, displayCurrent)
  /\ muxLog' = PushLog(muxLog, currentDigitIndex)
  /\ mainCall' = "refreshDisplay"
  /\ UNCHANGED <<voltageDigits, currentDigits, currentDigitIndex, displayVoltage,
                 displayCurrent, muxDir, muxOut, mainArgVars, logVars, socVars, loopVars,
                 millis, driverVars, mapperVars>>

\* the next pin operation of the running initDisplay() or refreshDisplay()
MuxStep ==
  /\ ~MainIdle
  /\ SetMux(MuxExec(Mux, Head(mops)))
  /\ mops' = Tail(mops)
  /\ UNCHANGED <<voltageDigits, currentDigits, displayVoltage, displayCurrent, muxLog,
                 mainCall, mainArgVars, logVars, socVars, loopVars,
                 millis, driverVars, mapperVars>>

\* The multiplexed display: set up, then refreshed, its buffers rewritten
\* between refreshes with the reading drawn here
InitMuxSpec ==
  /\ InitDriverIdle
  /\ InitStatics
  /\ mVoltageArg \in MuxVoltages
  /\ mCurrentArg \in MuxCurrents
  /\ sensorArg = 0
  /\ timer = NoTimer

NextMux ==
  \/ InitDisplay
  \/ UpdateDisplayBuffers(mVoltageArg, mCurrentArg)
  \/ RefreshDisplay
  \/ MuxStep

SpecMux == InitMuxSpec /\ [][NextMux]_vars

\* updateDisplayBuffers applied to every current of the bounded range
InitBuf ==
  /\ InitDriverIdle
  /\ InitStatics
  /\ mVoltageArg = 1250
  /\ mCurrentArg \in {5 * k : k \in (-MaxAmpStep)..MaxAmpStep}
  /\ sensorArg = 0
  /\ timer = NoTimer

NextBuf ==
  \/ InitDisplay
  \/ MuxStep
  \/ UpdateDisplayBuffers(mVoltageArg, mCurrentArg)

SpecBuf == InitBuf /\ [][NextBuf]_vars

\* ------------------------------------------------------------------------
\* main.cpp: the data log
\* ------------------------------------------------------------------------
\* (the difference is taken as a signed number)
TimerDue_signed(now, last, interval) == now - last >= interval

\* now - last >= interval on unsigned long
TimerDue(now, last, interval) == Sub32(now, last) >= interval

\* The INA226 readings at time t (hundredths of V and A): slow saw-tooth
\* signals, one per value of sensorArg
Sensor(t) ==
  LET k == t \div LOG_INTERVAL_MS
  IN [voltage |-> 1100 + ((7 * k + 113 * sensorArg) % 350),
      current |-> ((11 * k + 57 * sensorArg) % 401) - 200]

ZeroPoint == [timestamp |-> 0, voltage |-> 0, current |-> 0, soc |-> 0]

\* dataLog[i]
PointAt(log, i) == IF i \in DOMAIN log THEN log[i] ELSE ZeroPoint

\* dataLog[i] = pt
StorePoint(log, i, pt) == [j \in (DOMAIN log) \cup {i} |-> IF j = i THEN pt ELSE log[j]]

Log == [data |-> dataLog, index |-> dataIndex, count |-> dataCount]

\* (the index runs on without wrapping)
logData_noWrap(l, pt) ==
  [data |-> StorePoint(l.data, l.index, pt),
   index |-> l.index + 1,
   count |-> IF l.count < MAX_DATA_POINTS THEN l.count + 1 ELSE l.count]

logData(l, pt) ==
  [data |-> StorePoint(l.data, l.index, pt),
   index |-> (l.index + 1) % MAX_DATA_POINTS,
   count |-> IF l.count < MAX_DATA_POINTS THEN l.count + 1 ELSE l.count]

\* String(x, 1): x in hundredths, rounded to tenths
FormatOne(x) == IF x >= 0 THEN (x + 5) \div 10 ELSE -((5 - x) \div 10)

\* (the arrays always start at entry 0)
getDataJSON_fromZero(l) ==
  LET idx(i) == (i - 1) % MAX_DATA_POINTS
  IN [timestamps |-> [i \in 1..l.count |-> PointAt(l.data, idx(i)).timestamp],
      voltages |-> [i \in 1..l.count |-> FormatOne(PointAt(l.data, idx(i)).voltage)],
      currents |-> [i \in 1..l.count |-> FormatOne(PointAt(l.data, idx(i)).current)],
      soc |-> [i \in 1..l.count |-> FormatOne(PointAt(l.data, idx(i)).soc)],
      called |-> TRUE]

getDataJSON(l) ==
  LET startIdx == IF l.count < MAX_DATA_POINTS THEN 0 ELSE l.index
      idx(i) == (startIdx + i - 1) % MAX_DATA_POINTS
  IN [timestamps |-> [i \in 1..l.count |-> PointAt(l.data, idx(i)).timestamp],
      voltages |-> [i \in 1..l.count |-> FormatOne(PointAt(l.data, idx(i)).voltage)],
      currents |-> [i \in 1..l.count |-> FormatOne(PointAt(l.data, idx(i)).current)],
      soc |-> [i \in 1..l.count |-> FormatOne(PointAt(l.data, idx(i)).soc)],
      called |-> TRUE]

\* logData(), called when the log timer of loop() is due
LogData ==
  /\ MainIdle
  /\ Len(history) < MaxLogCalls
  /\ TimerDue(millis, lastLogTime, LOG_INTERVAL_MS)
  /\ LET pt == [timestamp |-> Sub32(millis, bootTime) \div 60000,
                voltage |-> Sensor(millis).voltage,
                current |-> Sensor(millis).current,
                soc |-> socPercentage]
         l == logData(Log, pt)
     IN /\ dataLog' = l.data
        /\ dataIndex' = l.index
        /\ dataCount' = l.count
        /\ history' = Append(history, pt)
  /\ lastLogTime' = millis
  /\ jsonOut' = NoJSON
  /\ mainCall' = "logData"
  /\ UNCHANGED <<bootTime, muxVars, mainArgVars, socVars, lastDisplayUpdate,
                 lastDisplayBufferUpdate, lastSocCalcTime, loopLog, millis, driverVars, mapperVars>>

\* getDataJSON(), called by the handler of GET /data
GetDataJSON ==
  /\ MainIdle
  /\ jsonOut' = getDataJSON(Log)
  /\ mainCall' = "getDataJSON"
  /\ UNCHANGED <<dataLog, dataIndex, dataCount, bootTime, history, muxVars, mainArgVars,
                 socVars, loopVars, millis, driverVars, mapperVars>>

\* ten minutes pass; loop() runs far more often, so a due log has been taken
TickLog ==
  /\ ~TimerDue(millis, lastLogTime, LOG_INTERVAL_MS)
  /\ millis' = (millis + LOG_INTERVAL_MS) % ULONG_MOD
  /\ jsonOut' = NoJSON
  /\ UNCHANGED <<dataLog, dataIndex, dataCount, bootTime, history, muxVars, mainCall,
                 mainArgVars, socVars, loopVars, driverVars, mapperVars>>

\* The log filled from empty, as in a build that reads the sensor; setup()
\* has set lastLogTime = millis() - LOG_INTERVAL_MS
InitLogSpec ==
  /\ InitDriverIdle
  /\ InitMapper
  /\ InitMux
  /\ InitLogVars
  /\ InitSoc
  /\ lastDisplayUpdate = 0
  /\ lastDisplayBufferUpdate = 0
  /\ lastSocCalcTime = 0
  /\ lastLogTime = Sub32(millis, LOG_INTERVAL_MS)
  /\ loopLog = NoLoop
  /\ mainCall = "setup"
  /\ mVoltageArg = 0
  /\ mCurrentArg = 0
  /\ sensorArg \in 0..MaxSensor
  /\ timer = NoTimer

NextLog ==
  \/ LogData
  \/ GetDataJSON
  \/ TickLog

SpecLog == InitLogSpec /\ [][NextLog]_vars

\* ------------------------------------------------------------------------
\* main.cpp: full detection
\* ------------------------------------------------------------------------
Soc == [start |-> fullDetectionStartTime, wasFull |-> batteryWasFull,
        soc |-> socPercentage, saved |-> FALSE]

FullCondition(voltage, current) ==
  voltage >= FULL_VOLTAGE_THRESHOLD /\ Abs(current) < FULL_CURRENT_THRESHOLD

\* (the reset does not wait for the detection time)
checkBatteryFull_noWait(s, now, voltage, current) ==
  IF FullCondition(voltage, current)
    THEN IF s.start = 0
           THEN [s EXCEPT !.start = now]
           ELSE IF ~s.wasFull
                  THEN [s EXCEPT !.soc = 10000, !.wasFull = TRUE, !.saved = TRUE]
                  ELSE s
    ELSE [s EXCEPT !.start = 0, !.wasFull = FALSE]

checkBatteryFull(s, now, voltage, current) ==
  IF FullCondition(voltage, current)
    THEN IF s.start = 0
           THEN [s EXCEPT !.start = now]
           ELSE IF Sub32(now, s.start) >= FULL_DETECTION_TIME /\ ~s.wasFull
                  THEN [s EXCEPT !.soc = 10000, !.wasFull = TRUE, !.saved = TRUE]
                  ELSE s
    ELSE [s EXCEPT !.start = 0, !.wasFull = FALSE]

CheckBatteryFull(voltage, current) ==
  /\ MainIdle
  /\ LET s == checkBatteryFull(Soc, millis, voltage, current)
         e == IF episode.open THEN episode ELSE [NoEpisode EXCEPT !.open = TRUE]
     IN /\ fullDetectionStartTime' = s.start
        /\ batteryWasFull' = s.wasFull
        /\ socPercentage' = s.soc
        /\ socSaves' = IF s.saved THEN Min(socSaves + 1, MaxSocSaves) ELSE socSaves
        /\ episode' = IF ~FullCondition(voltage, current) THEN NoEpisode
                       ELSE IF s.saved THEN [e EXCEPT !.resets = @ + 1, !.resetHeld = e.held]
                       ELSE e
  /\ mVoltageArg' = voltage
  /\ mCurrentArg' = current
  /\ mainCall' = "checkBatteryFull"
  /\ UNCHANGED <<muxVars, sensorArg, timer, logVars, loopVars, millis, driverVars, mapperVars>>

\* calculateSoc() recomputes socPercentage from the charge counted
SocLevels == {8000, 10000}
SocDrift ==
  /\ MainIdle
  /\ socPercentage' \in SocLevels
  /\ mainCall' = "calculateSoc"
  /\ UNCHANGED <<fullDetectionStartTime, batteryWasFull, socSaves, episode, muxVars,
                 mainArgVars, logVars, loopVars, millis, driverVars, mapperVars>>

SocTickSteps == {10000, 30000, ULONG_MOD - 20000}
TickSoc(dt) ==
  /\ LET t == (millis + dt) % ULONG_MOD
     IN /\ t <= MaxSocClock \/ t >= ULONG_MOD - 20000
        /\ millis' = t
  /\ episode' = IF episode.open
                   THEN [episode EXCEPT !.held = Min(@ + dt, 2 * FULL_DETECTION_TIME)]
                   ELSE episode
  /\ UNCHANGED <<socPercentage, fullDetectionStartTime, batteryWasFull, socSaves, muxVars,
                 mainCall, mainArgVars, logVars, loopVars, driverVars, mapperVars>>

SocVoltages == {1370, 1380, 1390}
SocCurrents == {-100, -99, 0, 99, 100}

InitSocSpec ==
  /\ InitDriverIdle
  /\ InitGlobals

NextSoc ==
  \/ \E v \in SocVoltages, c \in SocCurrents : CheckBatteryFull(v, c)
  \/ SocDrift
  \/ \E dt \in SocTickSteps : TickSoc(dt)

SpecSoc == InitSocSpec /\ [][NextSoc]_vars

\* ------------------------------------------------------------------------
\* main.cpp: setup() and loop()
\* ------------------------------------------------------------------------
RECURSIVE FoldMux(_, _)
FoldMux(m, o) == IF o = <<>> THEN m ELSE FoldMux(MuxExec(m, Head(o)), Tail(o))

\* loadTestData(): the generated pattern, ending in the reading drawn
TestData(voltage, current) ==
  [i \in 0..(MAX_DATA_POINTS - 1) |->
     [timestamp |-> 10 * i, voltage |-> voltage, current |-> current, soc |-> 8000]]

\* int lastIdx = (dataIndex > 0) ? dataIndex - 1 : dataCount - 1
LastIdx(l) == IF l.index > 0 THEN l.index - 1 ELSE l.count - 1

\* setup() of the build as compiled (IS_TEST): delay(1000), loadTestData(),
\* the timers, initDisplay() and the first updateDisplayBuffers()
Setup ==
  /\ mainCall = "none"
  /\ IS_TEST
  /\ LET now == (millis + SETUP_DELAY_MS) % ULONG_MOD
         data == TestData(mVoltageArg, mCurrentArg)
         l == [data |-> data, index |-> 0, count |-> MAX_DATA_POINTS]
         m == FoldMux(Mux, initDisplayOps)
         shown == PointAt(data, LastIdx(l))
     IN /\ millis' = now
        /\ dataLog' = data
        /\ dataIndex' = l.index
        /\ dataCount' = l.count
        /\ bootTime' = now
        /\ socPercentage' = data[MAX_DATA_POINTS - 1].soc
        /\ lastLogTime' = Sub32(now, LOG_INTERVAL_MS)
        /\ lastSocCalcTime' = now
        /\ SetMux(m)
        /\ displayVoltage' = shown.voltage
        /\ displayCurrent' = shown.current
        /\ voltageDigits' = formatVoltage(shown.voltage)
        /\ currentDigits' = formatCurrent(shown.current)
  /\ mainCall' = "setup"
  /\ UNCHANGED <<mops, muxLog, mainArgVars, history, jsonOut, fullDetectionStartTime,
                 batteryWasFull, socSaves, episode, lastDisplayUpdate,
                 lastDisplayBufferUpdate, loopLog, driverVars, mapperVars>>

\* (the display is refreshed only in iterations that do not update the buffers)
RefreshDue_unlessUpdate(ct) ==
  /\ TimerDue(ct, lastDisplayUpdate, DISPLAY_UPDATE_INTERVAL)
  /\ ~TimerDue(ct, lastDisplayBufferUpdate, BUFFER_UPDATE_INTERVAL)

\* currentTime - lastDisplayUpdate >= DISPLAY_UPDATE_INTERVAL
RefreshDue(ct) == TimerDue(ct, lastDisplayUpdate, DISPLAY_UPDATE_INTERVAL)

\* one iteration of loop()
Loop ==
  /\ MainIdle
  /\ mainCall # "none"
  /\ LET ct == millis
         bufferDue == TimerDue(ct, lastDisplayBufferUpdate, BUFFER_UPDATE_INTERVAL)
         socDue == ~IS_TEST /\ TimerDue(ct, lastSocCalcTime, SOC_CALC_INTERVAL_MS)
         logDue == ~IS_TEST /\ TimerDue(ct, lastLogTime, LOG_INTERVAL_MS)
         m == IF RefreshDue(ct)
                THEN FoldMux(Mux, refreshDisplayOps(currentDigitIndex, voltageDigits,
                                                    currentDigits, displayCurrent))
                ELSE Mux
         reading == IF IS_TEST THEN PointAt(dataLog, LastIdx(Log)) ELSE Sensor(ct)
         soc == IF socDue /\ lastSocCalcTime # 0
                  THEN checkBatteryFull(Soc, ct, Sensor(ct).voltage, Sensor(ct).current)
                  ELSE Soc
         pt == [timestamp |-> Sub32(ct, bootTime) \div 60000,
                voltage |-> Sensor(ct).voltage, current |-> Sensor(ct).current,
                soc |-> soc.soc]
         l == IF logDue THEN logData(Log, pt) ELSE Log
     IN /\ SetMux(m)
        /\ muxLog' = IF RefreshDue(ct) THEN PushLog(muxLog, currentDigitIndex) ELSE muxLog
        /\ lastDisplayUpdate' = IF RefreshDue(ct) THEN ct ELSE lastDisplayUpdate
        /\ displayVoltage' = IF bufferDue THEN reading.voltage ELSE displayVoltage
        /\ displayCurrent' = IF bufferDue THEN reading.current ELSE displayCurrent
        /\ voltageDigits' = IF bufferDue THEN formatVoltage(reading.voltage) ELSE voltageDigits
        /\ currentDigits' = IF bufferDue THEN formatCurrent(reading.current) ELSE currentDigits
        /\ lastDisplayBufferUpdate' = IF bufferDue THEN ct ELSE lastDisplayBufferUpdate
        /\ fullDetectionStartTime' = soc.start
        /\ batteryWasFull' = soc.wasFull
        /\ socPercentage' = soc.soc
        /\ socSaves' = IF soc.saved THEN Min(socSaves + 1, MaxSocSaves) ELSE socSaves
        /\ lastSocCalcTime' = IF socDue THEN ct ELSE lastSocCalcTime
        /\ dataLog' = l.data
        /\ dataIndex' = l.index
        /\ dataCount' = l.count
        /\ history' = IF logDue THEN Append(history, pt) ELSE history
        /\ lastLogTime' = IF logDue THEN ct ELSE lastLogTime
        /\ loopLog' = [at |-> ct, bufferDue |-> bufferDue,
                        socExpired |-> TimerDue(ct, lastSocCalcTime, SOC_CALC_INTERVAL_MS),
                        logExpired |-> TimerDue(ct, lastLogTime, LOG_INTERVAL_MS)]
  /\ mainCall' = "loop"
  /\ UNCHANGED <<mops, mainArgVars, bootTime, jsonOut, episode, millis, driverVars, mapperVars>>

\* The clock between two iterations of loop(): it stands, or advances by 1
\* or 3 ms, by half a buffer interval, or by a quarter of its range
LoopTickSteps == {1, 3, BUFFER_UPDATE_INTERVAL \div 2, LiveEpoch}
TickLoop(dt) ==
  /\ mainCall = "setup" \/ (mainCall = "loop" /\ loopLog.at = millis)
  /\ dt < BUFFER_UPDATE_INTERVAL \div 2 =>
        (millis % LiveEpoch) + dt <= SETUP_DELAY_MS + MaxLoopFine
  /\ dt < LiveEpoch =>
        (millis % LiveEpoch) + dt <= SETUP_DELAY_MS + MaxLoopFine + MaxLoopCoarse
  /\ millis' = (millis + dt) % ULONG_MOD
  /\ UNCHANGED <<mainVars, driverVars, mapperVars>>

TestVoltages == {1230}
TestCurrents == {-390}

InitLoopSpec ==
  /\ InitDriverIdle
  /\ InitStatics
  /\ mVoltageArg \in TestVoltages
  /\ mCurrentArg \in TestCurrents
  /\ sensorArg = 0
  /\ timer = NoTimer

NextLoop ==
  \/ Setup
  \/ Loop
  \/ \E dt \in LoopTickSteps : TickLoop(dt)

SpecLoop ==
  /\ InitLoopSpec
  /\ [][NextLoop]_vars
  /\ WF_vars(Setup)
  /\ WF_vars(Loop)
  /\ WF_vars(\E dt \in LoopTickSteps : TickLoop(dt))

\* ------------------------------------------------------------------------
\* The elapsed-time tests of loop() and setCurrent, one at a time
\* ------------------------------------------------------------------------
TimerIntervals ==
  {DISPLAY_UPDATE_INTERVAL, BUFFER_UPDATE_INTERVAL, LOG_INTERVAL_MS, FLASH_INTERVAL_MS}

\* if (now - last >= interval) { ...; last = now; }
TimerTest ==
  /\ LET due == IF timer.interval = FLASH_INTERVAL_MS
                  THEN FlashDue(millis, timer.last)
                  ELSE TimerDue(millis, timer.last, timer.interval)
     IN timer' = [timer EXCEPT !.due = due, !.tested = TRUE,
                               !.truly = timer.elapsed >= timer.interval,
                               !.wrapped = millis < timer.last,
                               !.setBack = timer.back,
                               !.last = IF due THEN millis ELSE @,
                               !.elapsed = IF due THEN 0 ELSE @,
                               !.back = IF due THEN FALSE ELSE @]
  /\ UNCHANGED <<millis, muxVars, mainCall, mVoltageArg, mCurrentArg, sensorArg, logVars,
                 socVars, loopVars, driverVars, mapperVars>>

\* lastLogTime = millis() - LOG_INTERVAL_MS, as setup() has it
TimerArmBack ==
  /\ timer.interval = LOG_INTERVAL_MS
  /\ timer' = [timer EXCEPT !.last = Sub32(millis, LOG_INTERVAL_MS),
                            !.elapsed = LOG_INTERVAL_MS, !.back = TRUE, !.tested = FALSE]
  /\ UNCHANGED <<millis, muxVars, mainCall, mVoltageArg, mCurrentArg, sensorArg, logVars,
                 socVars, loopVars, driverVars, mapperVars>>

\* The clock advances, by less than its range since 'last': by 1 ms or to
\* the interval early in each quarter of its range, or by a quarter
TimerTickSteps == {1, timer.interval - 1, LiveEpoch}
TimerTick(dt) ==
  /\ timer.elapsed + dt < ULONG_MOD
  /\ dt < LiveEpoch =>
       LET t == (millis % LiveEpoch) + dt
       IN t <= MaxTimerSlack \/ (t >= timer.interval - 1 /\ t <= timer.interval + MaxTimerSlack)
  /\ millis' = (millis + dt) % ULONG_MOD
  /\ timer' = [timer EXCEPT !.elapsed = @ + dt, !.tested = FALSE]
  /\ UNCHANGED <<muxVars, mainCall, mVoltageArg, mCurrentArg, sensorArg, logVars,
                 socVars, loopVars, driverVars, mapperVars>>

InitTimer ==
  /\ InitDriverIdle
  /\ InitStatics
  /\ mVoltageArg = 0
  /\ mCurrentArg = 0
  /\ sensorArg = 0
  /\ timer \in {[NoTimer EXCEPT !.interval = i] : i \in TimerIntervals}

NextTimer ==
  \/ TimerTest
  \/ TimerArmBack
  \/ \E dt \in TimerTickSteps : TimerTick(dt)

SpecTimer == InitTimer /\ [][NextTimer]_vars

\* ========================================================================
\* Properties
\* ========================================================================
Card(S) == Cardinality(S)
InDwell == ops # <<>> /\ Head(ops)[1] = "delay" /\ HighZ(Hw) # Pins
LastScan == scanLog[Len(scanLog)]
Returned(op) == Idle /\ lastCall.op = op

\* C1 (as claimed): at every pin operation at most one pin is driven HIGH
\* and, while a pin is driven HIGH, exactly one pin is driven LOW and the
\* other 7 are high-impedance.
C1_OneHighOneLow ==
  /\ Card(DrivenHigh(Hw)) <= 1
  /\ DrivenHigh(Hw) # {} => (Card(DrivenLow(Hw)) = 1 /\ Card(HighZ(Hw)) = 7)

\* C1 (amended): at every pin operation at most two pins are driven and at
\* most one (driven-HIGH, driven-LOW) pin pair is energized; whenever time
\* passes with a pin driven, exactly one pin is driven HIGH, exactly one is
\* driven LOW and the other 7 are high-impedance.
C1_OnePairEnergized ==
  /\ Card(Pins \ HighZ(Hw)) <= 2
  /\ Card(DrivenHigh(Hw) \X DrivenLow(Hw)) <= 1
  /\ InDwell => /\ Card(DrivenHigh(Hw)) = 1
                /\ Card(DrivenLow(Hw)) = 1
                /\ Card(HighZ(Hw)) = 7

\* C1 witness: the dwell of the decimal point of digit 2, pins 4 and 5 driven
C1_Witness ==
  /\ InDwell
  /\ Head(ops)[2] = DISPLAY_BRIGHTNESS
  /\ DrivenHigh(Hw) = {4} /\ DrivenLow(Hw) = {5}
  /\ lastCall.op = "refresh" /\ lastCall.digit = 2

\* C2: every drive window is preceded by a period with all 9 pins
\* high-impedance in which at least the settle time (15 us) of delay has
\* elapsed since the previous drive window, within a refresh() call and
\* across calls.
C2_SettleBeforeDrive ==
  \A i \in 1..Len(drives) : drives[i][4] >= SETTLE_US

\* C2 witness: a later refresh() call has driven 8 segments one after the other
C2_Witness ==
  /\ Len(scanLog) >= 2
  /\ Len(drives) = 8
  /\ \A i \in 1..Len(drives) : drives[i][4] >= SETTLE_US

\* the pin pairs of the set bits of glyph s and of the decimal point, on digit d
GlyphPairs(d, s, dp) ==
  { <<{digitMap[d + 1][i + 1][1]}, {digitMap[d + 1][i + 1][2]}, DISPLAY_BRIGHTNESS>> :
      i \in {j \in 0..6 : (digitPatterns[s + 1] \div (2 ^ j)) % 2 = 1}
            \cup (IF dp THEN {7} ELSE {}) }

DriveSet == { <<drives[i][1], drives[i][2], drives[i][3]>> : i \in 1..Len(drives) }

\* C3: outside test mode, a refresh() call that services digit d holding a
\* symbol s of the glyph domain (0..12) and decimal-point flag dp drives
\* exactly the pairs digitMap[d][i] of the bits i in 0..6 set in
\* digitPatterns[s], plus digitMap[d][7] iff dp, each once and for
\* DISPLAY_BRIGHTNESS microseconds, and no other pair.
C3_GlyphDriven ==
  (Returned("refresh") /\ ~testMode /\ displayBuffer[lastCall.digit] < NUM_PATTERNS)
    => LET d == lastCall.digit
       IN /\ DriveSet = GlyphPairs(d, displayBuffer[d], decimalPoints[d])
          /\ Len(drives) = Card(DriveSet)

\* C3 witness: after setDigit(3, 10, true) the refresh() of digit 3 has driven
\* segment G and the decimal point
C3_Witness ==
  /\ Returned("refresh")
  /\ lastCall.digit = 3 /\ digitArg = 3 /\ valueArg = 10 /\ dpArg
  /\ displayBuffer[3] = 10 /\ decimalPoints[3]
  /\ DriveSet = { <<{8}, {1}, DISPLAY_BRIGHTNESS>>, <<{5}, {4}, DISPLAY_BRIGHTNESS>> }

\* the drive windows of the last refresh() call all belong to digit d
DrivesOf(d) ==
  \A i \in 1..Len(drives) :
    \E seg \in Segs : drives[i][1] = {Anode(d, seg)} /\ drives[i][2] = {Cathode(d, seg)}

\* C4: every refresh() call services one digit and advances the cursor by
\* one modulo 6; the cursor stays in 0..5; six consecutive refresh() calls
\* service each of the digits 0..5 once and leave the cursor where it was
\* before them.
C4_CursorCycle ==
  /\ currentDigit \in Digits
  /\ (Returned("refresh") /\ scanLog # <<>>) =>
       /\ currentDigit = (LastScan[1] + 1) % NUM_DIGITS
       /\ DrivesOf(LastScan[2])
  /\ (Idle /\ Len(scanLog) = NUM_DIGITS) =>
       /\ { scanLog[i][2] : i \in 1..NUM_DIGITS } = Digits
       /\ scanLog[1][1] = currentDigit

\* C4 witness: six refresh() calls that started at cursor 3 have returned
C4_Witness ==
  /\ Returned("refresh")
  /\ Len(scanLog) = NUM_DIGITS
  /\ scanLog[1][1] = 3
  /\ currentDigit = 3

\* C5 (as claimed): the digit serviced by a refresh() call is
\* scanSequence[currentDigit], the configured scan sequence {5,4,3,2,1,0}.
C5_ScanSequenceUsed ==
  \A i \in 1..Len(scanLog) : scanLog[i][2] = scanSequence[scanLog[i][1] + 1]

\* C6 (as claimed): every display-buffer entry holds a symbol code of the
\* glyph table's domain 0..12.
C6_BufferInGlyphDomain ==
  \A d \in Digits : displayBuffer[d] \in 0..(NUM_PATTERNS - 1)

\* C7: setDigit(index, value, dp) with index >= 6 leaves all symbols, all
\* decimal-point flags, the scan cursor and all pins unchanged; with
\* index < 6 it sets entry index and changes nothing else.
C7_SetDigitFrame ==
  [][(Idle /\ lastCall'.op = "setDigit") =>
       LET d == lastCall'.digit
       IN /\ currentDigit' = currentDigit
          /\ pinDir' = pinDir /\ pinOut' = pinOut /\ ops' = ops
          /\ toggleState' = toggleState
          /\ \A i \in Digits \ {d} : /\ displayBuffer'[i] = displayBuffer[i]
                                     /\ decimalPoints'[i] = decimalPoints[i]
          /\ d \in Digits => /\ displayBuffer'[d] = lastCall'.value
                             /\ decimalPoints'[d] = lastCall'.dp]_vars

\* C7 witness: setDigit(7, 8, true) has returned in the middle of a scan and
\* the buffer is as constructed
C7_Witness ==
  /\ Returned("setDigit")
  /\ lastCall.digit = 7 /\ lastCall.value = 8 /\ lastCall.dp
  /\ currentDigit = 3
  /\ displayBuffer = [i \in Digits |-> 0]
  /\ decimalPoints = [i \in Digits |-> FALSE]

\* the number in tenths shown by entries 0..2
ShownTenths == 100 * displayBuffer[0] + 10 * displayBuffer[1] + displayBuffer[2]

\* C8: for a voltage v in [0, 99.9], setVoltage(v) leaves in entries 0,1,2
\* the tens, ones and tenths digits of v rounded to the nearest tenth, and
\* the decimal point on at index 1 and off at indices 0 and 2.
C8_VoltageDigits ==
  (Returned("setVoltage") /\ voltageArg >= 0 /\ voltageArg <= 9990) =>
    /\ \A i \in 0..2 : displayBuffer[i] \in 0..9
    /\ Abs(10 * voltageArg - 100 * ShownTenths) <= 50
    /\ ~decimalPoints[0] /\ decimalPoints[1] /\ ~decimalPoints[2]

\* C8 witness: setVoltage(12.34) has left [1,2,3] with the point at index 1
C8_Witness ==
  /\ Returned("setVoltage")
  /\ voltageArg = 1234
  /\ displayBuffer[0] = 1 /\ displayBuffer[1] = 2 /\ displayBuffer[2] = 3
  /\ ~decimalPoints[0] /\ decimalPoints[1] /\ ~decimalPoints[2]

\* C9: setVoltage clamps to [0, 99.9]: a negative voltage leaves [0,0,0],
\* a voltage above 99.9 leaves [9,9,9], and entries 0..2 are decimal
\* digits in all cases.
C9_VoltageClamp ==
  Returned("setVoltage") =>
    /\ \A i \in 0..2 : displayBuffer[i] \in 0..9
    /\ voltageArg < 0 => \A i \in 0..2 : displayBuffer[i] = 0
    /\ voltageArg > 9990 => \A i \in 0..2 : displayBuffer[i] = 9

\* C9 witness: setVoltage(150.0) has left [9,9,9]
C9_Witness ==
  /\ Returned("setVoltage")
  /\ voltageArg = 15000
  /\ \A i \in 0..2 : displayBuffer[i] = 9

BothZero == Len(flashLog) = 2 /\ flashLog[1].current = 0 /\ flashLog[2].current = 0
Spacing == Sub32(flashLog[2].at, flashLog[1].at)

\* C10 (as claimed): across two consecutive setCurrent(+0.0) calls spaced
\* at least FLASH_INTERVAL_MS apart the decimal-point flag at index 4
\* differs, and across two spaced less than that apart it is the same.
C10_ZeroCurrentFlashes ==
  BothZero =>
    /\ Spacing >= FLASH_INTERVAL_MS => flashLog[1].flag # flashLog[2].flag
    /\ Spacing < FLASH_INTERVAL_MS => flashLog[1].flag = flashLog[2].flag

\* C10 (amended): after every setCurrent(+0.0) call the decimal-point flag
\* at index 4 is true, so across any two consecutive setCurrent(+0.0) calls
\* it has the same value, whatever their spacing.
C10_ZeroCurrentSteady ==
  /\ \A i \in 1..Len(flashLog) : flashLog[i].current = 0 => flashLog[i].flag
  /\ BothZero => flashLog[1].flag = flashLog[2].flag

\* C10 witness: two setCurrent(+0.0) calls at least FLASH_INTERVAL_MS apart,
\* the toggle state flipped by the second one
C10_Witness ==
  /\ Returned("setCurrent")
  /\ BothZero
  /\ Spacing >= FLASH_INTERVAL_MS
  /\ flashLog[1].tog # flashLog[2].tog
  /\ flashLog[2].flag /\ decimalPoints[4]

\* C11: while charging (every setCurrent call has current > 0) with the
\* clock advancing without bound, after each call the decimal-point flag at
\* index 4 is the negation of toggleState, toggleState changes on exactly
\* the calls at which at least FLASH_INTERVAL_MS has elapsed since the last
\* toggle, and the flag is true infinitely often and false infinitely often.
C11_ChargingFlashes ==
  /\ [][(flashLog' # flashLog) =>
          /\ decimalPoints'[4] = (toggleState' = 0)
          /\ (toggleState' # toggleState)
               <=> (Sub32(millis, lastDisplayFlash) >= FLASH_INTERVAL_MS)]_vars
  /\ []<>(Returned("setCurrent") /\ decimalPoints[4])
  /\ []<>(Returned("setCurrent") /\ ~decimalPoints[4])

\* C11 witness: a charging call exactly FLASH_INTERVAL_MS after the previous
\* one has flipped the toggle and put the flag out
C11_Witness ==
  /\ Returned("setCurrent")
  /\ Len(flashLog) = 2
  /\ flashLog[1].current > 0 /\ flashLog[2].current > 0
  /\ flashLog[2].at < LiveEpoch /\ lastDisplayFlash = flashLog[2].at
  /\ Sub32(flashLog[2].at, flashLog[1].at) = FLASH_INTERVAL_MS
  /\ flashLog[1].flag /\ ~flashLog[2].flag
  /\ toggleState = 1 /\ ~decimalPoints[4]

ShownAmpTenths == 10 * displayBuffer[4] + displayBuffer[5]

\* C13: for every current c of either sign, setCurrent(c) leaves in entries
\* 4 and 5 the ones and tenths digits of min(round(|c| * 10), 99) and 0 in
\* entry 3; each of the entries 3..5 is a decimal digit.
C13_CurrentDigits ==
  Returned("setCurrent") =>
    /\ \A i \in 3..5 : displayBuffer[i] \in 0..9
    /\ displayBuffer[3] = 0
    /\ Abs(currentArg) < 985 => Abs(10 * Abs(currentArg) - 100 * ShownAmpTenths) <= 50
    /\ Abs(currentArg) >= 985 => ShownAmpTenths = 99

\* C13 witness: setCurrent(-12.34) has left [0,9,9]
C13_Witness ==
  /\ Returned("setCurrent")
  /\ currentArg = -1234
  /\ displayBuffer[3] = 0 /\ displayBuffer[4] = 9 /\ displayBuffer[5] = 9

\* the segments of digit d that refresh() finds lit for symbol s and flag dp
LitSegs(s, dp) ==
  {j \in 0..6 : (digitPatterns[s + 1] \div (2 ^ j)) % 2 = 1} \cup (IF dp THEN {7} ELSE {})
IsAbsent(d, seg) == \E k \in AbsentSides : <<d, seg, k>> \in absentSegs
PresentPairs(d, s, dp) ==
  { <<{digitMap[d + 1][i + 1][1]}, {digitMap[d + 1][i + 1][2]}, DISPLAY_BRIGHTNESS>> :
      i \in {j \in LitSegs(s, dp) : ~IsAbsent(d, j)} }

\* C14: a segment whose table entry holds the sentinel (as anode or as
\* cathode) is never driven: whenever time passes with a pin driven, the
\* pins driven are the pair of a segment of the serviced digit that is not
\* absent, and a refresh() of the affected digit, whatever symbol it holds,
\* drives the pairs of its lit segments that are present and no other pin.
C14_AbsentNeverDriven ==
  /\ InDwell =>
        \E seg \in Segs :
          /\ ~IsAbsent(lastCall.digit, seg)
          /\ DrivenHigh(Hw) = {digitMap[lastCall.digit + 1][seg + 1][1]}
          /\ DrivenLow(Hw) = {digitMap[lastCall.digit + 1][seg + 1][2]}
  /\ (Returned("refresh") /\ displayBuffer[lastCall.digit] < NUM_PATTERNS) =>
        LET d == lastCall.digit
        IN /\ DriveSet = PresentPairs(d, displayBuffer[d], decimalPoints[d])
           /\ Len(drives) = Card(DriveSet)

\* C14 witness: digit 2 shows an 8 and its segment A (pins 1, 2) has no
\* anode; the refresh() of digit 2 has driven the six segments B..G
C14_Witness ==
  /\ Returned("refresh")
  /\ absentSegs = {<<2, 0, "anode">>}
  /\ lastCall.digit = 2 /\ displayBuffer[2] = 8 /\ ~decimalPoints[2]
  /\ Len(drives) = 6
  /\ \A i \in 1..Len(drives) : drives[i][1] = {1} /\ drives[i][2] # {2}

\* the delay a refresh() call spends on every digit
DigitOverhead == DISCHARGE_PULSE + INTER_DIGIT_DELAY
\* the delay a refresh() call spends on a segment it drives
SegmentCost == SETTLE_US + DISPLAY_BRIGHTNESS + INTER_SEGMENT_DELAY

C16_BlankDigitDark ==
  (lastCall.op = "refresh" /\ lastCall.value = 12 /\ ~lastCall.dp) =>
    /\ HighZ(Hw) = Pins
    /\ drives = <<>>
    /\ spent <= DigitOverhead
    /\ Idle => /\ spent = DigitOverhead
               /\ currentDigit = (LastScan[1] + 1) % NUM_DIGITS

\* C16 witness: after setDigit(4, 12, false) the refresh() of digit 4 has
\* returned with nothing driven and the cursor on digit 5
C16_Witness ==
  /\ Returned("refresh")
  /\ lastCall.digit = 4 /\ lastCall.value = 12 /\ ~lastCall.dp
  /\ displayBuffer[4] = 12 /\ ~decimalPoints[4]
  /\ drives = <<>> /\ spent = INTER_DIGIT_DELAY
  /\ LastScan[1] = 4 /\ currentDigit = 5

\* C17: whenever no refresh() is running (after construction, after begin()
\* and after every return of refresh(), whatever the buffer holds) all 9
\* pins are high-impedance; begin() drives no pin at any of its steps.
C17_HighZBetweenCalls ==
  /\ Idle => HighZ(Hw) = Pins
  /\ lastCall.op = "begin" => HighZ(Hw) = Pins

\* C17 witness: a refresh() that drove 8 segments has returned; the output
\* latch of a pin still holds HIGH and every pin is high-impedance
C17_Witness ==
  /\ Returned("refresh")
  /\ Len(drives) = 8
  /\ \E p \in Pins : pinOut[p] = 1
  /\ HighZ(Hw) = Pins

\* C19: begin() is idempotent: no step of a begin() call changes the
\* symbols, the decimal-point flags, the toggle or the cursor; every
\* begin() returns with all 9 pins high-impedance; and a begin() called
\* right after a begin() changes no pin at all, so that two or more calls
\* in a row, at any point between refresh() calls, leave what one leaves.
C19_BeginIdempotent ==
  /\ [][(lastCall'.op = "begin") =>
          /\ displayBuffer' = displayBuffer /\ decimalPoints' = decimalPoints
          /\ toggleState' = toggleState /\ currentDigit' = currentDigit
          /\ lastCall'.again => (pinDir' = pinDir /\ pinOut' = pinOut)]_vars
  /\ [](Returned("begin") => HighZ(Hw) = Pins)

\* C19 witness: begin() called twice in a row in the middle of a scan, after
\* setDigit(1, 8, true), has returned
C19_Witness ==
  /\ Returned("begin") /\ lastCall.again
  /\ currentDigit = 3 /\ Len(scanLog) >= 3
  /\ displayBuffer[1] = 8 /\ decimalPoints[1]
  /\ HighZ(Hw) = Pins

\* a step of a refresh() call: its entry or one of its pin operations
RefreshStep == lastCall'.op = "refresh" /\ (~Idle \/ ~Idle')
ContentUnchanged ==
  /\ displayBuffer' = displayBuffer
  /\ decimalPoints' = decimalPoints
  /\ toggleState' = toggleState

\* C18 (as claimed): every refresh() call leaves all 6 symbols, all 6
\* decimal-point flags and the flash toggle unchanged, in every mode,
\* also after startTestPattern() or startGhostingTest().
C18_RefreshReadsOnly == [][RefreshStep => ContentUnchanged]_vars

\* C18 (amended): outside test mode every refresh() call leaves all 6
\* symbols, all 6 decimal-point flags and the flash toggle unchanged.
C18_RefreshReadsOnlyOutsideTest == [][(RefreshStep /\ ~testMode) => ContentUnchanged]_vars

\* C18 witness: after stopTestPattern() a refresh() has returned and the
\* buffer still holds the test pattern the last refresh() in test mode wrote
C18_Witness ==
  /\ Returned("refresh")
  /\ ~testMode
  /\ \A i \in Digits : displayBuffer[i] = 1 /\ decimalPoints[i]
  /\ testDigitValue = 1
  /\ Len(drives) = 3

EntriesValid ==
  \A d \in Digits, sg \in Segs :
    /\ digitMap[d + 1][sg + 1][1] \in Pins
    /\ digitMap[d + 1][sg + 1][2] \in Pins
    /\ digitMap[d + 1][sg + 1][1] # digitMap[d + 1][sg + 1][2]

\* C20: every entry digitMap[d][s], d in 0..5 and s in 0..7, has both pin
\* indices in 0..8 and its anode pin different from its cathode pin; so
\* every pin operation of a refresh() addresses one of the 9 pins.
C20_TableEntriesValid ==
  /\ EntriesValid
  /\ (ops # <<>> /\ Head(ops)[1] \in {"mode", "write"}) => Head(ops)[2] \in Pins
  /\ DrivenHigh(Hw) \cap DrivenLow(Hw) = {}

\* C20 witness: the last entry of the table, the decimal point of digit 5
\* on pins 7 and 4, is being driven
C20_Witness ==
  /\ InDwell
  /\ lastCall.op = "refresh" /\ lastCall.digit = 5
  /\ DrivenHigh(Hw) = {digitMap[6][8][1]} /\ DrivenLow(Hw) = {digitMap[6][8][2]}
  /\ DrivenHigh(Hw) = {7} /\ DrivenLow(Hw) = {4}

\* ------------------------------------------------------------------------
\* main.cpp
\* ------------------------------------------------------------------------
MuxHigh == {p \in DigitPins : muxDir[p] = 1 /\ muxOut[p] = 1}
MuxReturned(f) == MainIdle /\ mainCall = f
LastMux == muxLog[Len(muxLog)]

\* C25 (as claimed): after updateDisplayBuffers the current digits encode the
\* clamped rounded magnitude of the input - in tenths, clamped to 9.9, with the
\* decimal point for a current in [-9.9, 9.9], otherwise as an integer clamped
\* to 999 without decimal point - and a negative current shows the minus glyph
\* (code 10) in the leading position.
C25_CurrentMagnitudeShown ==
  mainCall = "updateDisplayBuffers" =>
    LET c == displayCurrent
        mag == Abs(c)
        d == currentDigits
        shown == IF d[1] = 10 THEN 10 * d[2] + d[3] ELSE 100 * d[1] + 10 * d[2] + d[3]
    IN /\ (d[1] = 10) = (c < 0)
       /\ Bit(SegmentsOf(4, voltageDigits, d, c), 7) = ShowDP(c)
       /\ ShowDP(c) => shown = Min(RoundTenths(mag), 99)
       /\ ~ShowDP(c) => shown = Min(RoundUnits(mag), 999)

\* C29: on the multiplexed display at most one digit-select pin is HIGH at
\* any step; while refreshDisplay() rewrites the segment pins all six digit
\* pins are LOW; the digit it leaves HIGH is the one currentDigitIndex named
\* before the call; the index then is one further modulo 6, and six
\* consecutive calls service six different digits.
C29_OneDigitSelected ==
  /\ Card(MuxHigh) <= 1
  /\ (~MainIdle /\ mainCall = "refreshDisplay" /\ Head(mops)[1] = "write"
        /\ Head(mops)[2] \in SegPins) => \A p \in DigitPins : muxOut[p] = 0
  /\ MuxReturned("refreshDisplay") =>
        /\ MuxHigh = {DigitPin(LastMux)}
        /\ currentDigitIndex = (LastMux + 1) % 6
  /\ Len(muxLog) = 6 => {muxLog[i] : i \in 1..6} = 0..5

C29_Witness ==
  /\ MuxReturned("refreshDisplay")
  /\ Len(muxLog) = 6
  /\ LastMux = 3
  /\ MuxHigh = {14}
  /\ currentDigits[1] = 10

\* the most recent k points logged, oldest first
Recent(k) == SubSeq(history, Len(history) - k + 1, Len(history))

\* C22: after n calls of logData() from the empty log dataCount = min(n, 288)
\* and dataIndex = n mod 288; both stay in range, only entries 0..287 of
\* dataLog are ever written, and once the log is full the entry written next
\* is the one holding the oldest point.
C22_RollingBuffer ==
  LET n == Len(history)
  IN /\ dataCount = Min(n, MAX_DATA_POINTS)
     /\ dataIndex = n % MAX_DATA_POINTS
     /\ dataIndex \in 0..(MAX_DATA_POINTS - 1)
     /\ dataCount \in 0..MAX_DATA_POINTS
     /\ DOMAIN dataLog \subseteq 0..(MAX_DATA_POINTS - 1)
     /\ n > 0 => dataLog[(dataIndex + MAX_DATA_POINTS - 1) % MAX_DATA_POINTS] = history[n]
     /\ dataCount = MAX_DATA_POINTS => dataLog[dataIndex] = history[n - MAX_DATA_POINTS + 1]

C22_Witness ==
  /\ mainCall = "logData"
  /\ Len(history) = 2 * MAX_DATA_POINTS + 5
  /\ dataIndex = 5
  /\ dataCount = MAX_DATA_POINTS
  /\ dataLog[4].timestamp = 10 * (2 * MAX_DATA_POINTS + 4)

\* C23: getDataJSON() after n logData() calls returns four arrays of
\* min(n, 288) entries each, entry i of each array coming from the same
\* point: the most recent min(n, 288) points logged, oldest first, their
\* values printed with one decimal.
C23_JSONChronological ==
  jsonOut.called =>
    LET k == Min(Len(history), MAX_DATA_POINTS)
        pts == Recent(k)
    IN /\ jsonOut.timestamps = [i \in 1..k |-> pts[i].timestamp]
       /\ jsonOut.voltages = [i \in 1..k |-> FormatOne(pts[i].voltage)]
       /\ jsonOut.currents = [i \in 1..k |-> FormatOne(pts[i].current)]
       /\ jsonOut.soc = [i \in 1..k |-> FormatOne(pts[i].soc)]

C23_Witness ==
  /\ jsonOut.called
  /\ Len(history) = MAX_DATA_POINTS + 100
  /\ Len(jsonOut.voltages) = MAX_DATA_POINTS
  /\ jsonOut.timestamps[1] = 1000
  /\ jsonOut.timestamps[MAX_DATA_POINTS] = 10 * (MAX_DATA_POINTS + 99)

\* C24: checkBatteryFull resets the SOC to 100 % and saves it only in a call
\* at which the full condition has held on every call for 60000 ms or more
\* since the first call of the episode, and at most once per episode; a call
\* at which the condition fails clears the timer and re-arms the reset.
C24_ResetStep ==
  socSaves' # socSaves =>
    /\ FullCondition(mVoltageArg', mCurrentArg')
    /\ episode.open /\ episode.held >= FULL_DETECTION_TIME /\ episode.resets = 0
    /\ socPercentage' = 10000 /\ batteryWasFull'

C24_FullAfterSixtySeconds ==
  /\ [](/\ episode.resets <= 1
        /\ episode.resets = 1 => episode.resetHeld >= FULL_DETECTION_TIME
        /\ batteryWasFull = (episode.resets = 1)
        /\ ~episode.open => fullDetectionStartTime = 0 /\ ~batteryWasFull
        /\ (mainCall = "checkBatteryFull" /\ ~FullCondition(mVoltageArg, mCurrentArg))
             => ~episode.open)
  /\ [][C24_ResetStep]_vars

C24_Witness ==
  /\ mainCall = "checkBatteryFull"
  /\ socSaves = 2
  /\ episode.resets = 1
  /\ episode.resetHeld = FULL_DETECTION_TIME
  /\ millis < fullDetectionStartTime

\* C21: every iteration of loop() that finds 2 ms or more elapsed since
\* lastDisplayUpdate calls refreshDisplay() (the digit index advances, the
\* digit serviced is logged, lastDisplayUpdate becomes the iteration's time),
\* whether or not the buffer update is due and whether or not the SOC and log
\* timers have expired; an iteration that finds less does not; and with the
\* clock advancing refreshDisplay() is called again and again.
C21_LoopStep ==
  (mainCall' = "loop" /\ millis' = millis) =>
    IF Sub32(millis, lastDisplayUpdate) >= DISPLAY_UPDATE_INTERVAL
      THEN /\ currentDigitIndex' = (currentDigitIndex + 1) % 6
           /\ muxLog' = PushLog(muxLog, currentDigitIndex)
           /\ lastDisplayUpdate' = millis
      ELSE UNCHANGED <<currentDigitIndex, muxLog, lastDisplayUpdate>>

C21_RefreshDecoupled ==
  /\ [][C21_LoopStep]_vars
  /\ []<>(mainCall = "loop" /\ currentDigitIndex = 0)
  /\ []<>(mainCall = "loop" /\ currentDigitIndex = 3)

C21_Witness ==
  /\ mainCall = "loop"
  /\ loopLog.bufferDue /\ loopLog.socExpired /\ loopLog.logExpired
  /\ lastDisplayUpdate = millis
  /\ lastDisplayBufferUpdate = millis
  /\ millis = LiveEpoch + SETUP_DELAY_MS + MaxLoopFine
  /\ Len(muxLog) = 6
  /\ MuxHigh = {DigitPin(LastMux)}

\* C26 (as claimed): while lightSegment(anode, cathode) runs - a pin switched
\* to OUTPUT driving the level last written to it - no pin pair conducts
\* before both pins are outputs, and once they are the only conducting
\* (driven-HIGH, driven-LOW) pair is (anode, cathode).
C26_OnlyRequestedPair ==
  LET conducting == DrivenHigh(Hw) \X DrivenLow(Hw)
  IN /\ (ops # <<>> /\ Head(ops)[1] = "mode" /\ Head(ops)[3] = 1) => conducting = {}
     /\ (Len(ops) >= 2 /\ Head(ops)[1] = "write" /\ Head(ops)[3] = 1)
          => conducting \subseteq {<<Head(ops)[2], ops[2][2]>>}

\* the (digit, segment) positions of digitMap that hold the pair pr
PositionsOf(pr) == {ps \in Digits \X Segs : digitMap[ps[1] + 1][ps[2] + 1] = pr}

EntriesDistinct ==
  \A ps \in Digits \X Segs, qs \in Digits \X Segs :
    digitMap[ps[1] + 1][ps[2] + 1] = digitMap[qs[1] + 1][qs[2] + 1] => ps = qs

\* C27: the 48 entries of digitMap are pairwise different as ordered
\* (anode, cathode) pairs; so the pair driven during a dwell belongs to one
\* position only, a segment of the digit being serviced.
C27_PairsDistinct ==
  /\ EntriesDistinct
  /\ InDwell =>
       \A pr \in DrivenHigh(Hw) \X DrivenLow(Hw) :
         /\ Card(PositionsOf(pr)) = 1
         /\ \A ps \in PositionsOf(pr) : ps[1] = lastCall.digit

C27_Witness ==
  /\ InDwell
  /\ lastCall.op = "refresh" /\ lastCall.digit = 4
  /\ DrivenHigh(Hw) = {4} /\ DrivenLow(Hw) = {6}
  /\ PositionsOf(<<4, 6>>) = {<<4, 6>>}
  /\ PositionsOf(<<6, 4>>) = {<<5, 6>>}

\* entries and decimal-point flags lo..hi of the display buffer
Shown(buf, dp, lo, hi) == [i \in lo..hi |-> <<buf[i], dp[i]>>]

\* C28: a setVoltage call changes only entries and decimal-point flags 0..2,
\* a setCurrent call only entries and flags 3..5 and the flash toggle state;
\* neither changes the scan cursor or a pin; so between calls entries 0..2
\* show the argument of the last setVoltage and entries 3..5 that of the
\* last setCurrent, however the calls and refresh() are interleaved.
C28_FrameStep ==
  /\ voltLog' # voltLog =>
        /\ Shown(displayBuffer', decimalPoints', 3, 5) = Shown(displayBuffer, decimalPoints, 3, 5)
        /\ UNCHANGED <<toggleState, lastDisplayFlash, currentDigit, pinDir, pinOut, ops>>
  /\ flashLog' # flashLog =>
        /\ Shown(displayBuffer', decimalPoints', 0, 2) = Shown(displayBuffer, decimalPoints, 0, 2)
        /\ UNCHANGED <<currentDigit, pinDir, pinOut, ops>>
  /\ UNCHANGED <<voltLog, flashLog>> => UNCHANGED <<displayBuffer, decimalPoints>>

C28_VoltageCurrentFrames ==
  /\ [][C28_FrameStep]_vars
  /\ [](voltLog # <<>> =>
          LET t == RoundTenths(voltLog[1])
          IN Shown(displayBuffer, decimalPoints, 0, 2)
               = [i \in 0..2 |-> <<(t \div (10 ^ (2 - i))) % 10, i = 1>>])
  /\ [](flashLog # <<>> =>
          LET t == Min(RoundTenths(Abs(flashLog[Len(flashLog)].current)), 99)
          IN /\ \A i \in 3..5 : displayBuffer[i] = (t \div (10 ^ (5 - i))) % 10
             /\ ~decimalPoints[3] /\ ~decimalPoints[5])

C28_Witness ==
  /\ Returned("setCurrent")
  /\ voltLog = <<1380>>
  /\ flashLog[Len(flashLog)].current = 350
  /\ Len(scanLog) = 6
  /\ Shown(displayBuffer, decimalPoints, 0, 5)
       = [i \in 0..5 |-> <<<<1, 3, 8, 0, 3, 5>>[i + 1], i = 1>>]

\* C30: a test now - last >= interval on the unsigned millisecond counter
\* passes exactly when the true time elapsed since 'last' - below the
\* counter's range - is at least the interval: for the refresh, buffer and
\* log intervals of loop() and the flash interval of setCurrent, also when
\* the counter has wrapped past 0 since 'last', and with 'last' set back by
\* the log interval as setup() does, when the first test passes at once.
C30_TimersSurviveWrap ==
  /\ timer.tested => timer.due = timer.truly
  /\ (timer.tested /\ timer.setBack) => timer.due
  /\ timer.elapsed < ULONG_MOD

C30_Witness ==
  /\ timer.tested /\ timer.due /\ timer.truly
  /\ timer.interval = LOG_INTERVAL_MS
  /\ timer.wrapped /\ timer.setBack
  /\ millis = 1

\* ------------------------------------------------------------------------
\* The pin mapper (src/data/mapper.cpp)
\* ------------------------------------------------------------------------

\* (the function without its first two statements: it polls BUTTON_PIN until
\* it reads LOW, then until it reads HIGH)
waitForButtonPress_polling(ph, b) ==
  CASE ph = "press" -> IF b = 1 THEN "press" ELSE "release"
    [] ph = "release" -> IF b = 0 THEN "release" ELSE "return"

\* waitForButtonPress(): where the function goes from phase ph with the button
\* at level b, "return" when it returns.  Its first two statements are
\* delay(200); return true; - the loops on digitalRead(BUTTON_PIN) that follow
\* are never executed.  (mapper.cpp never reads the clock: the delay leaves
\* no trace in the state.)
waitForButtonPress(ph, b) ==
  CASE ph = "press" -> "return"
    [] ph = "release" -> "return"

\* setup(): waitForButtonPress(), then every display line made an input
mapperSetupOps ==
  << <<"wait", 0, 0>> >> \o [i \in 1..numPins |-> <<"mode", i - 1, 0>>]

\* loop(): the body of the inner for loop for a pair of distinct lines
mapperTestOps(a, c) ==
  [i \in 1..numPins |-> <<"mode", i - 1, 0>>]
  \o << <<"mode", a, 1>>, <<"mode", c, 1>>,
        <<"write", a, 1>>, <<"write", c, 0>>,
        <<"print", a, c>>,
        <<"wait", 1, 0>>,
        <<"off", a, 0>>,
        <<"next", 0, 0>> >>

\* loop(): the statements after the two for loops
mapperEndOps == << <<"wait", 2, 0>>, <<"reset", 0, 0>> >>

\* setup() is entered
MapperSetup ==
  /\ mapPc = "boot"
  /\ mapPc' = "setup"
  /\ pops' = mapperSetupOps
  /\ UNCHANGED <<mapDir, mapOut, button, waitPhase, mapAnode, mapCathode, testNumber,
                 testLog, sawPress, sawRelease, leftTest, millis, mainVars, driverVars>>

\* loop() is entered: int anode = 0, int cathode = 0
MapperLoop ==
  /\ mapPc \in {"ready", "done"}
  /\ mapPc' = "loop"
  /\ mapAnode' = 0
  /\ mapCathode' = 0
  /\ testLog' = <<>>
  /\ UNCHANGED <<mapDir, mapOut, button, pops, waitPhase, testNumber, sawPress,
                 sawRelease, leftTest, millis, mainVars, driverVars>>

\* loop(): the control of the two for loops
MapperFor ==
  /\ mapPc = "loop"
  /\ pops = <<>>
  /\ CASE mapAnode = numPins ->
            /\ pops' = mapperEndOps
            /\ UNCHANGED <<mapAnode, mapCathode>>
       [] mapAnode < numPins /\ mapCathode = numPins ->
            /\ mapAnode' = mapAnode + 1
            /\ mapCathode' = 0
            /\ UNCHANGED pops
       [] mapAnode < numPins /\ mapCathode < numPins /\ mapAnode = mapCathode ->
            /\ mapCathode' = mapCathode + 1
            /\ UNCHANGED <<mapAnode, pops>>
       [] OTHER ->
            /\ pops' = mapperTestOps(mapAnode, mapCathode)
            /\ UNCHANGED <<mapAnode, mapCathode>>
  /\ UNCHANGED <<mapDir, mapOut, button, mapPc, waitPhase, testNumber, testLog,
                 sawPress, sawRelease, leftTest, millis, mainVars, driverVars>>

\* the next statement of the running setup() or loop(), other than a wait
MapperStep ==
  /\ pops # <<>>
  /\ Head(pops)[1] # "wait"
  /\ LET op == Head(pops)
     IN /\ mapDir' = IF op[1] = "mode" THEN [mapDir EXCEPT ![op[2]] = op[3]] ELSE mapDir
        /\ mapOut' = IF op[1] \in {"write", "off"} THEN [mapOut EXCEPT ![op[2]] = op[3]]
                     ELSE mapOut
        /\ testLog' = IF op[1] = "print"
                      THEN Append(testLog, [n |-> testNumber, anode |-> op[2],
                                            cathode |-> op[3]])
                      ELSE testLog
        /\ testNumber' = CASE op[1] = "print" -> testNumber + 1
                           [] op[1] = "reset" -> 1
                           [] OTHER -> testNumber
        /\ sawPress' = IF op[1] = "print" THEN button = 0 ELSE sawPress
        /\ sawRelease' = IF op[1] = "print" THEN FALSE ELSE sawRelease
        /\ mapCathode' = IF op[1] = "next" THEN mapCathode + 1 ELSE mapCathode
        /\ mapPc' = CASE op[1] = "reset" -> "done"
                      [] mapPc = "setup" /\ Tail(pops) = <<>> -> "ready"
                      [] OTHER -> mapPc
  /\ pops' = Tail(pops)
  /\ UNCHANGED <<button, waitPhase, mapAnode, leftTest, millis, mainVars, driverVars>>

\* a step of the running waitForButtonPress()
MapperWait ==
  /\ pops # <<>>
  /\ Head(pops)[1] = "wait"
  /\ LET r == waitForButtonPress(waitPhase, button)
     IN /\ r # waitPhase
        /\ IF r = "return"
           THEN /\ pops' = Tail(pops)
                /\ waitPhase' = "press"
                /\ leftTest' = IF Head(pops)[2] = 1
                               THEN [n |-> testLog[Len(testLog)].n,
                                     button |-> sawPress /\ sawRelease]
                               ELSE leftTest
           ELSE /\ waitPhase' = r
                /\ UNCHANGED <<pops, leftTest>>
  /\ UNCHANGED <<mapDir, mapOut, button, mapPc, mapAnode, mapCathode, testNumber,
                 testLog, sawPress, sawRelease, millis, mainVars, driverVars>>

\* the operator presses or releases the button
Button ==
  /\ button' = 1 - button
  /\ sawPress' = (sawPress \/ button' = 0)
  /\ sawRelease' = (sawRelease \/ (sawPress /\ button' = 1))
  /\ UNCHANGED <<mapDir, mapOut, mapPc, pops, waitPhase, mapAnode, mapCathode,
                 testNumber, testLog, leftTest, millis, mainVars, driverVars>>

\* The mapper from power-up, the operator free to press and release the
\* button at any moment or never
InitMapperSpec ==
  /\ InitDriverIdle
  /\ InitGlobals

NextMapper ==
  \/ MapperSetup
  \/ MapperLoop
  \/ MapperFor
  \/ MapperStep
  \/ MapperWait
  \/ Button

SpecMapper == InitMapperSpec /\ [][NextMapper]_vars

\* the k-th ordered pair of distinct lines in lexicographic order, k from 1
PairAt(k) ==
  LET a == (k - 1) \div (numPins - 1)
      j == (k - 1) % (numPins - 1)
  IN <<a, IF j < a THEN j ELSE j + 1>>

\* a test is on: announced, or waited on, or about to be switched off
MapperTesting ==
  /\ pops # <<>>
  /\ \/ Head(pops)[1] \in {"print", "off"}
     \/ Head(pops)[1] = "wait" /\ Head(pops)[2] = 1

\* the tests of a pass are the ordered pairs in lexicographic order, numbered
\* from 1; a finished pass has made all 72 and has reset the counter
MapperOrder ==
  /\ \A k \in 1..Len(testLog) :
       /\ testLog[k].n = k
       /\ <<testLog[k].anode, testLog[k].cathode>> = PairAt(k)
  /\ Len(testLog) <= numPins * (numPins - 1)
  /\ mapPc = "done" => (Len(testLog) = numPins * (numPins - 1) /\ testNumber = 1)

\* while a test is on, the anode alone is driven HIGH, the cathode alone LOW
MapperDrive ==
  MapperTesting =>
    /\ mapAnode # mapCathode
    /\ {i \in 0..(numPins - 1) : mapDir[i] = 1 /\ mapOut[i] = 1} = {mapAnode}
    /\ {i \in 0..(numPins - 1) : mapDir[i] = 1 /\ mapOut[i] = 0} = {mapCathode}
    /\ \A i \in 0..(numPins - 1) \ {mapAnode, mapCathode} : mapDir[i] = 0

\* a test is left only after the button was LOW and then HIGH again
MapperButton == leftTest.n > 0 => leftTest.button

\* C31 (as claimed): each pass of the mapper's loop() tests every ordered pair
\* of distinct lines once, 72 tests numbered 1..72 in lexicographic order, the
\* counter reset to 1 afterwards; during a test only the anode is driven HIGH
\* and only the cathode LOW, the other 7 lines high-impedance; and the mapper
\* goes on from a test only after the button has been pressed and released.
\* The last part does not hold: waitForButtonPress() returns after 200 ms
\* without reading the button.
C31_MapperTests ==
  /\ MapperOrder
  /\ MapperDrive
  /\ MapperButton
====
